---- MODULE Spec2Model ----
(***************************************************************************)
(* State-machine model of the hash sets of this repository:                *)
(*   HashSetSequential, HashSetCoarseGrained, HashSetStriped and           *)
(*   HashSetRefinable, plus the clients that drive them (a free client,    *)
(*   disjoint-range adders, benchmark::ThreadBody, the sequential demo).   *)
(* One thread step is one access to shared memory (an atomic load/store,   *)
(* a mutex operation, a read or write of table_ / mutexes_).               *)
(***************************************************************************)
EXTENDS Integers, Sequences, FiniteSets, TLC

\* ------------------------------------------------------------------ bounds
NThreads == 2
\* number of keys each disjoint-range adder adds
RangeSize == 6
\* the benchmark's arguments initial_capacity and chunk_size
BenchCapacity == 1
ChunkSize == 2
\* ThreadBody makes 20 passes and removes the keys divisible by 20; the model
\* runs the same loop with a smaller pass count and divisor
Passes == 2
RemoveDivisor == 2
\* number of calls the single-threaded free clients make after the prefill
MaxCalls == 5
\* the sequential demo's arguments: initial_capacity <= MaxDemoCapacity,
\* count <= MaxCount
MaxDemoCapacity == 2
MaxCount == 10
\* number of calls each client of the fair specification makes
LiveCalls == 2
\* number of calls each client makes on a fresh set in SpecChurn
ChurnCalls == 3

\* the scenario of one thread filling a refinable set: capacity and key count
S4Capacity == 2
S4Count == 1000
\* the capacity of the set in the missed-resize scenario
MissedCapacity == 1
\* number of keys the free clients work on
NKeys == 3
InitialCapacity == 2

\* the resize threshold of Policy(): elem_count / bucket_count > 4
PolicyThreshold == 4

Threads == 1..NThreads
NoThread == 0

\* The main thread first fills the set up to the resize threshold, adding the
\* keys 0 .. PrefillCount-1 one call after the other; then the clients run.
PrefillCount == PolicyThreshold * InitialCapacity
\* the clients' keys: the last key of the prefill and NKeys-1 absent keys
Keys == (PrefillCount - 1)..(PrefillCount + NKeys - 2)

VARIABLES
  variant,        \* which class the set object is an instance of
  initial_bucket_count_,  \* the capacity the set was constructed with
  table_,         \* std::vector<std::vector<T>>: bucket index -> sequence of keys
  bucket_count_,  \* (atomic) size_t
  elem_count_,    \* (atomic) size_t; a negative value v stands for 2^64 + v
  mutexes_,       \* std::vector<std::mutex>: index -> holding thread, NoThread if free
  readers,        \* resizing_mutex_: threads holding it shared
  writer,         \* resizing_mutex_: thread holding it exclusively, or NoThread
  th,             \* per thread: program counter and the locals of the running call
  todo,           \* per thread: the calls its client program has still to make
  spawned,        \* the concurrent clients have been started
  abs,            \* ghost: the abstract set, updated at each linearization point
  ub              \* ghost: some thread has executed undefined behaviour

vars == <<variant, initial_bucket_count_, table_, bucket_count_, elem_count_, mutexes_, readers, writer, th, todo,
          spawned, abs, ub>>

\* fixed at construction
config == <<variant, initial_bucket_count_>>

shared == <<table_, bucket_count_, elem_count_, mutexes_, readers, writer>>

\* ------------------------------------------------------------ pure helpers

\* std::hash<int> of the build's standard library is the identity on the
\* non-negative keys the clients use
Hash(elem) == elem

\* ContainsNoLock: std::find over a copy of the bucket
ContainsNoLock(tbl, elem, my_bucket) ==
  \E i \in 1..Len(tbl[my_bucket]) : tbl[my_bucket][i] = elem

\* index of the first occurrence of elem in s (std::find), 0 when absent
RECURSIVE FindFrom(_, _, _)
FindFrom(s, elem, i) ==
  IF i > Len(s) THEN 0
  ELSE IF s[i] = elem THEN i
  ELSE FindFrom(s, elem, i + 1)

\* vector::erase(std::find(begin, end, elem)): drops the first occurrence
EraseFirst(s, elem) ==
  LET i == FindFrom(s, elem, 1)
  IN IF i = 0 THEN s
     ELSE SubSeq(s, 1, i - 1) \o SubSeq(s, i + 1, Len(s))

\* vector::push_back
PushBack(s, elem) == Append(s, elem)

\* a freshly resized table: n empty buckets
EmptyTable(n) == [b \in 0..(n - 1) |-> <<>>]

\* a freshly constructed std::vector<std::mutex>(n)
FreshMutexes(n) == [i \in 0..(n - 1) |-> NoThread]

\* the keys of buckets b..n-1 of tbl in iteration order: buckets in index
\* order, each front to back (the range is halved to keep the evaluation shallow)
RECURSIVE Flatten(_, _, _)
Flatten(tbl, b, n) ==
  IF b >= n THEN <<>>
  ELSE IF n = b + 1 THEN tbl[b]
  ELSE Flatten(tbl, b, (b + n) \div 2) \o Flatten(tbl, (b + n) \div 2, n)

\* the nested loop of Resize over the first old_size buckets of tbl: every key
\* in iteration order is pushed onto bucket hash % modulus of a fresh table of
\* new_capacity buckets, so a new bucket holds, in iteration order, the keys
\* that hash to it
PushAll(tbl, old_size, new_capacity, modulus) ==
  [b \in 0..(new_capacity - 1) |->
     SelectSeq(Flatten(tbl, 0, old_size), LAMBDA elem : Hash(elem) % modulus = b)]

\* mutant: the rehash loop of Resize hashes modulo the old capacity
RehashOldCapacity(tbl, old_size, new_capacity) ==
  PushAll(tbl, old_size, new_capacity, old_size)

\* the rehash loop of Resize: every key of every old bucket is pushed onto
\* bucket hash % new_capacity of a fresh table
Rehash(tbl, old_size, new_capacity) ==
  PushAll(tbl, old_size, new_capacity, new_capacity)

\* number of buckets of a table value (table_.size())
TableSize(tbl) == Cardinality(DOMAIN tbl)

\* mutant: Policy() is true only at the crossing of the threshold, when
\* elem_count is exactly 5 * bucket_count
PolicyOfCrossing(e, b) == IF e < 0 THEN TRUE ELSE e = (PolicyThreshold + 1) * b

\* mutant: Policy() compares the real-valued load factor with the threshold,
\* so that a load factor of 4.5 triggers
PolicyOfLoadFactor(e, b) == IF e < 0 THEN TRUE ELSE e > PolicyThreshold * b

\* mutant: Policy() compares the element count itself with the threshold
PolicyOfCount(e, b) == IF e < 0 THEN TRUE ELSE e > PolicyThreshold

\* Policy(): (elem_count / bucket_count) > 4 on size_t; e < 0 encodes the
\* wrapped value 2^64 + e, whose quotient by any small bucket count exceeds 4
PolicyOf(e, b) == IF e < 0 THEN TRUE ELSE (e \div b) > PolicyThreshold

\* the keys stored anywhere in the table
StoredKeys(tbl) == UNION {{tbl[b][i] : i \in 1..Len(tbl[b])} : b \in DOMAIN tbl}

RECURSIVE SumLen(_, _, _)
SumLen(tbl, b, n) ==
  IF b >= n THEN 0
  ELSE IF n = b + 1 THEN Len(tbl[b])
  ELSE SumLen(tbl, b, (b + n) \div 2) + SumLen(tbl, (b + n) \div 2, n)

\* ------------------------------------------------------- thread-local state

\* locals of a thread that is not inside a call
IdleTh == [pc |-> "idle", op |-> "none", elem |-> 0, my_bucket |-> 0, my_lock |-> 0,
           rel |-> 0, old_capacity |-> 0, i |-> 0, pe |-> 0, pb |-> 0, res |-> FALSE,
           size |-> 0, linearized |-> FALSE, lin |-> FALSE,
           table |-> <<>>, sums |-> {}]

Set(t, r) == th' = [th EXCEPT ![t] = r]
Goto(t, label) == th' = [th EXCEPT ![t].pc = label]
At(t, label) == th[t].pc = label

\* ghost: a thread inside a Size() call records in sums every value the number
\* of stored keys takes between the call's invocation and its return: the
\* value at its load of elem_count_, and the value before and after every
\* write of table_ by another thread while the call is in progress
InSizeCall(u) == th[u].op = "Size" /\ th[u].pc \in {"size", "done"}

\* thread t writes the table (tbl is the new value) and updates its locals to r
SetWriting(t, r, tbl) ==
  th' = [u \in DOMAIN th |->
           IF u = t THEN r
           ELSE IF InSizeCall(u)
                THEN [th[u] EXCEPT !.sums = @ \cup {SumLen(table_, 0, TableSize(table_)),
                                                    SumLen(tbl, 0, TableSize(tbl))}]
                ELSE th[u]]

\* the bucket mutexes thread t holds
Held(t) == {i \in DOMAIN mutexes_ : mutexes_[i] = t}

\* a thread that has executed undefined behaviour stops; ub records it
Undefined(t) == /\ ub' = TRUE
                /\ Goto(t, "ub")

\* --------------------------------------------------------------- clients

PerKeyOps == {"Add", "Remove", "Contains"}
AllOps == PerKeyOps \cup {"Size"}

\* first program counter of a call, per class
EntryPc(op) ==
  CASE op = "Size" -> "size"
    [] variant = "refinable" -> "acq_gate"
    [] variant = "striped" -> "s_lock"
    [] variant = "coarse" -> "c_lock"
    [] OTHER -> "q_contains"

\* free client: any thread may call any per-key operation on any key
FreeInvoke(t) ==
  /\ At(t, "idle")
  /\ spawned
  /\ \E op \in AllOps, k \in Keys :
       /\ op = "Size" => k = PrefillCount - 1
       /\ Set(t, [IdleTh EXCEPT !.pc = EntryPc(op), !.op = op,
                                !.elem = IF op = "Size" THEN 0 ELSE k])
  /\ UNCHANGED <<config, shared, todo, spawned, abs, ub>>

\* program client: the thread makes the next call of its program
ProgInvoke(t) ==
  /\ At(t, "idle")
  /\ todo[t] # <<>>
  /\ Head(todo[t])[1] # "Any"
  /\ Set(t, [IdleTh EXCEPT !.pc = EntryPc(Head(todo[t])[1]), !.op = Head(todo[t])[1],
                           !.elem = Head(todo[t])[2]])
  /\ todo' = [todo EXCEPT ![t] = Tail(@)]
  /\ UNCHANGED <<config, shared, spawned, abs, ub>>

\* budgeted free client: the next call of the program is any call on any key
AnyInvoke(t) ==
  /\ At(t, "idle")
  /\ todo[t] # <<>>
  /\ Head(todo[t])[1] = "Any"
  /\ \E op \in AllOps, k \in Keys :
       /\ op = "Size" => k = PrefillCount - 1
       /\ Set(t, [IdleTh EXCEPT !.pc = EntryPc(op), !.op = op,
                                !.elem = IF op = "Size" THEN 0 ELSE k])
  /\ todo' = [todo EXCEPT ![t] = Tail(@)]
  /\ UNCHANGED <<config, shared, spawned, abs, ub>>

\* the main thread has finished the prefill and starts the concurrent clients
Spawn ==
  /\ ~spawned
  /\ \A t \in Threads : At(t, "idle") /\ todo[t] = <<>>
  /\ spawned' = TRUE
  /\ UNCHANGED <<config, shared, th, todo, abs, ub>>

\* the call returns to the client
Return(t) ==
  /\ At(t, "done")
  /\ Set(t, IdleTh)
  /\ UNCHANGED <<config, shared, todo, spawned, abs, ub>>

\* Size(): return elem_count_.load(), the same in every class
Size(t) ==
  /\ At(t, "size")
  /\ Set(t, [th[t] EXCEPT !.pc = "done", !.size = elem_count_,
                          !.sums = @ \cup {SumLen(table_, 0, TableSize(table_))}])
  /\ UNCHANGED <<config, shared, todo, spawned, abs, ub>>

\* ------------------------------------------------------ HashSetRefinable

\* mutant: Acquire reads bucket_count_ and locks the bucket mutex without
\* taking the shared lease on resizing_mutex_
RefAcquireNoGate(t) ==
  /\ At(t, "acq_gate")
  /\ Goto(t, "acq_load")
  /\ UNCHANGED <<config, shared, todo, spawned, abs, ub>>

\* Acquire: std::shared_lock reader_lock(resizing_mutex_)
RefAcquireShared(t) ==
  /\ At(t, "acq_gate")
  /\ writer = NoThread
  /\ readers' = readers \cup {t}
  /\ Goto(t, "acq_load")
  /\ UNCHANGED <<config, table_, bucket_count_, elem_count_, mutexes_, writer, todo, spawned, abs, ub>>

\* mutant: Acquire picks the mutex modulo the initial capacity
RefAcquireLoadInitial(t) ==
  /\ At(t, "acq_load")
  /\ Set(t, [th[t] EXCEPT !.pc = "acq_lock", !.my_lock = Hash(th[t].elem) % initial_bucket_count_])
  /\ UNCHANGED <<config, shared, todo, spawned, abs, ub>>

\* Acquire: my_bucket = hash(elem) % bucket_count_.load()
RefAcquireLoad(t) ==
  /\ At(t, "acq_load")
  /\ Set(t, [th[t] EXCEPT !.pc = "acq_lock", !.my_lock = Hash(th[t].elem) % bucket_count_])
  /\ UNCHANGED <<config, shared, todo, spawned, abs, ub>>

\* Acquire: mutexes_[my_bucket].lock()
RefAcquireLock(t) ==
  /\ At(t, "acq_lock")
  /\ IF th[t].my_lock \notin DOMAIN mutexes_
     THEN Undefined(t) /\ UNCHANGED mutexes_
     ELSE /\ mutexes_[th[t].my_lock] = NoThread
          /\ mutexes_' = [mutexes_ EXCEPT ![th[t].my_lock] = t]
          /\ Goto(t, "acq_unshare")
          /\ UNCHANGED ub
  /\ UNCHANGED <<config, table_, bucket_count_, elem_count_, readers, writer, todo, spawned, abs>>

\* mutant: the shared lease taken in Acquire is kept when Acquire returns
RefAcquireKeepShared(t) ==
  /\ At(t, "acq_unshare")
  /\ Goto(t, "body_bucket")
  /\ UNCHANGED <<config, shared, todo, spawned, abs, ub>>

\* Acquire returns: reader_lock goes out of scope and drops the shared lease
RefAcquireUnshare(t) ==
  /\ At(t, "acq_unshare")
  /\ readers' = readers \ {t}
  /\ Goto(t, "body_bucket")
  /\ UNCHANGED <<config, table_, bucket_count_, elem_count_, mutexes_, writer, todo, spawned, abs, ub>>

\* Add/Remove/Contains: my_bucket = hash(elem) % bucket_count_.load()
RefBodyBucket(t) ==
  /\ variant = "refinable"
  /\ At(t, "body_bucket")
  /\ Set(t, [th[t] EXCEPT !.pc = "body_contains",
                          !.my_bucket = Hash(th[t].elem) % bucket_count_])
  /\ UNCHANGED <<config, shared, todo, spawned, abs, ub>>

\* mutant: an Add that finds its key already present still counts it
BodyContainsCountDup(t, next) ==
  IF th[t].my_bucket \notin DOMAIN table_
  THEN Undefined(t)
  ELSE LET found == ContainsNoLock(table_, th[t].elem, th[t].my_bucket)
           in_abs == th[t].elem \in abs
       IN /\ UNCHANGED ub
          /\ CASE th[t].op = "Add" ->
                    IF found
                    THEN Set(t, [th[t] EXCEPT !.pc = "add_count", !.res = FALSE,
                                            !.linearized = TRUE, !.lin = ~in_abs])
                    ELSE Goto(t, "add_push")
               [] th[t].op = "Remove" ->
                    IF ~found
                    THEN Set(t, [th[t] EXCEPT !.pc = next, !.res = FALSE,
                                            !.linearized = TRUE, !.lin = in_abs])
                    ELSE Goto(t, "rem_assert")
               [] OTHER ->
                    Set(t, [th[t] EXCEPT !.pc = next, !.res = found,
                                       !.linearized = TRUE, !.lin = in_abs])

\* the ContainsNoLock test of Add, Remove and Contains and the early returns
BodyContains(t, next) ==
  IF th[t].my_bucket \notin DOMAIN table_
  THEN Undefined(t)
  ELSE LET found == ContainsNoLock(table_, th[t].elem, th[t].my_bucket)
           in_abs == th[t].elem \in abs
       IN /\ UNCHANGED ub
          /\ CASE th[t].op = "Add" ->
                    IF found
                    THEN Set(t, [th[t] EXCEPT !.pc = next, !.res = FALSE,
                                            !.linearized = TRUE, !.lin = ~in_abs])
                    ELSE Goto(t, "add_push")
               [] th[t].op = "Remove" ->
                    IF ~found
                    THEN Set(t, [th[t] EXCEPT !.pc = next, !.res = FALSE,
                                            !.linearized = TRUE, !.lin = in_abs])
                    ELSE Goto(t, "rem_assert")
               [] OTHER ->
                    Set(t, [th[t] EXCEPT !.pc = next, !.res = found,
                                       !.linearized = TRUE, !.lin = in_abs])

RefBodyContains(t) ==
  /\ variant = "refinable"
  /\ At(t, "body_contains")
  /\ BodyContains(t, "rel_load")
  /\ UNCHANGED <<config, shared, todo, spawned, abs>>

\* Add: table_[my_bucket].push_back(elem)
AddPush(t) ==
  /\ At(t, "add_push")
  /\ table_' = [table_ EXCEPT ![th[t].my_bucket] = PushBack(@, th[t].elem)]
  /\ abs' = abs \cup {th[t].elem}
  /\ SetWriting(t, [th[t] EXCEPT !.pc = "add_count", !.res = TRUE,
                                 !.linearized = TRUE, !.lin = th[t].elem \notin abs],
                table_')
  /\ UNCHANGED <<config, bucket_count_, elem_count_, mutexes_, readers, writer, todo, spawned, ub>>

\* mutant: Add does not increment elem_count_
AddNoCount(t, next) ==
  /\ At(t, "add_count")
  /\ Goto(t, next)
  /\ UNCHANGED <<config, shared, todo, spawned, abs, ub>>

\* Add: elem_count_.fetch_add(1)
AddCount(t, next) ==
  /\ At(t, "add_count")
  /\ elem_count_' = elem_count_ + 1
  /\ Goto(t, next)
  /\ UNCHANGED <<config, table_, bucket_count_, mutexes_, readers, writer, todo, spawned, abs, ub>>

\* Remove: assert(elem_count_ != 0); a failed assertion aborts the process
RemoveAssert(t) ==
  /\ At(t, "rem_assert")
  /\ Goto(t, IF elem_count_ # 0 THEN "rem_erase" ELSE "abort")
  /\ UNCHANGED <<config, shared, todo, spawned, abs, ub>>

\* Remove: table_[my_bucket].erase(std::find(begin, end, elem))
RemoveErase(t) ==
  /\ At(t, "rem_erase")
  /\ IF ~ContainsNoLock(table_, th[t].elem, th[t].my_bucket)
     THEN Undefined(t) /\ UNCHANGED <<table_, abs>>
     ELSE /\ table_' = [table_ EXCEPT ![th[t].my_bucket] = EraseFirst(@, th[t].elem)]
          /\ abs' = abs \ {th[t].elem}
          /\ SetWriting(t, [th[t] EXCEPT !.pc = "rem_count", !.res = TRUE,
                                         !.linearized = TRUE, !.lin = th[t].elem \in abs],
                        table_')
          /\ UNCHANGED ub
  /\ UNCHANGED <<config, bucket_count_, elem_count_, mutexes_, readers, writer, todo, spawned>>

\* mutant: Remove does not decrement elem_count_
RemoveNoCount(t, next) ==
  /\ At(t, "rem_count")
  /\ Goto(t, next)
  /\ UNCHANGED <<config, shared, todo, spawned, abs, ub>>

\* Remove: elem_count_.fetch_sub(1)
RemoveCount(t, next) ==
  /\ At(t, "rem_count")
  /\ elem_count_' = elem_count_ - 1
  /\ Goto(t, next)
  /\ UNCHANGED <<config, table_, bucket_count_, mutexes_, readers, writer, todo, spawned, abs, ub>>

RefAddPush(t) == variant = "refinable" /\ AddPush(t)
\* mutant: Add keeps its bucket mutex while it evaluates Policy() and resizes
RefAddCountKeepLock(t) == variant = "refinable" /\ AddCount(t, "policy")
RefAddCount(t) == variant = "refinable" /\ AddCount(t, "rel_load")
RefRemoveAssert(t) == variant = "refinable" /\ RemoveAssert(t)
RefRemoveErase(t) == variant = "refinable" /\ RemoveErase(t)
RefRemoveCount(t) == variant = "refinable" /\ RemoveCount(t, "rel_load")

\* mutant: Release computes the index modulo the initial capacity
RefReleaseLoadInitial(t) ==
  /\ At(t, "rel_load")
  /\ Set(t, [th[t] EXCEPT !.pc = "rel_unlock", !.rel = Hash(th[t].elem) % initial_bucket_count_])
  /\ UNCHANGED <<config, shared, todo, spawned, abs, ub>>

\* Release: the index hash(elem) % bucket_count_.load() is computed again
RefReleaseLoad(t) ==
  /\ At(t, "rel_load")
  /\ Set(t, [th[t] EXCEPT !.pc = "rel_unlock", !.rel = Hash(th[t].elem) % bucket_count_])
  /\ UNCHANGED <<config, shared, todo, spawned, abs, ub>>

\* Release: mutexes_[index].unlock(); unlocking a mutex the thread does not
\* hold is undefined. A successful Add goes on to Policy().
RefReleaseUnlock(t) ==
  /\ At(t, "rel_unlock")
  /\ IF th[t].rel \notin DOMAIN mutexes_ \/ mutexes_[th[t].rel] # t
     THEN Undefined(t) /\ UNCHANGED mutexes_
     ELSE /\ mutexes_' = [mutexes_ EXCEPT ![th[t].rel] = NoThread]
          /\ Goto(t, IF th[t].op = "Add" /\ th[t].res THEN "policy" ELSE "done")
          /\ UNCHANGED ub
  /\ UNCHANGED <<config, table_, bucket_count_, elem_count_, readers, writer, todo, spawned, abs>>

\* Policy(): elem_count_.load() / bucket_count_.load() > 4. The two loads are
\* separate atomic reads; the language leaves the order of the operands of /
\* unspecified, so either load may come first.
PolicyLoadElemFirst(t) ==
  /\ At(t, "policy")
  /\ Set(t, [th[t] EXCEPT !.pc = "policy_b", !.pe = elem_count_])
  /\ UNCHANGED <<config, shared, todo, spawned, abs, ub>>

PolicyLoadBucketFirst(t) ==
  /\ At(t, "policy")
  /\ Set(t, [th[t] EXCEPT !.pc = "policy_e", !.pb = bucket_count_])
  /\ UNCHANGED <<config, shared, todo, spawned, abs, ub>>

\* the second load and the comparison; Add calls Resize() when it is true
PolicyDecide(t, resize_pc, else_pc) ==
  /\ \/ /\ At(t, "policy_b")
        /\ Set(t, [th[t] EXCEPT !.pb = bucket_count_,
                     !.pc = IF PolicyOf(th[t].pe, bucket_count_) THEN resize_pc ELSE else_pc])
     \/ /\ At(t, "policy_e")
        /\ Set(t, [th[t] EXCEPT !.pe = elem_count_,
                     !.pc = IF PolicyOf(elem_count_, th[t].pb) THEN resize_pc ELSE else_pc])
  /\ UNCHANGED <<config, shared, todo, spawned, abs, ub>>

RefPolicyDecide(t) == variant = "refinable" /\ PolicyDecide(t, "rs_old", "done")

\* Resize: old_capacity = bucket_count_.load()
ResizeOld(t, next) ==
  /\ At(t, "rs_old")
  /\ Set(t, [th[t] EXCEPT !.pc = next, !.old_capacity = bucket_count_])
  /\ UNCHANGED <<config, shared, todo, spawned, abs, ub>>

RefResizeOld(t) == variant = "refinable" /\ ResizeOld(t, "rs_gate")

\* mutant: the writer lock is granted while another thread holds it
RefResizeGateOverWriter(t) ==
  /\ At(t, "rs_gate")
  /\ readers = {}
  /\ writer' = t
  /\ Goto(t, "rs_check")
  /\ UNCHANGED <<config, table_, bucket_count_, elem_count_, mutexes_, readers, todo, spawned, abs, ub>>

\* mutant: the writer lock is granted while threads hold the gate shared
RefResizeGateOverReaders(t) ==
  /\ At(t, "rs_gate")
  /\ writer = NoThread
  /\ writer' = t
  /\ Goto(t, "rs_check")
  /\ UNCHANGED <<config, table_, bucket_count_, elem_count_, mutexes_, readers, todo, spawned, abs, ub>>

\* Resize: std::lock_guard writer_lock(resizing_mutex_): exclusive, so it
\* waits until no thread holds the gate shared or exclusively
RefResizeGate(t) ==
  /\ At(t, "rs_gate")
  /\ readers = {}
  /\ writer = NoThread
  /\ writer' = t
  /\ Goto(t, "rs_check")
  /\ UNCHANGED <<config, table_, bucket_count_, elem_count_, mutexes_, readers, todo, spawned, abs, ub>>

\* mutant: Resize goes on to the swap without calling Quiesce()
RefResizeCheckNoQuiesce(t) ==
  /\ variant = "refinable"
  /\ At(t, "rs_check")
  /\ Set(t, [th[t] EXCEPT !.i = 0,
               !.pc = IF bucket_count_ # th[t].old_capacity THEN "rs_ungate" ELSE "rs_store"])
  /\ UNCHANGED <<config, shared, todo, spawned, abs, ub>>

\* Resize: if (bucket_count_.load() != old_capacity) return;
RefResizeCheck(t) ==
  /\ variant = "refinable"
  /\ At(t, "rs_check")
  /\ Set(t, [th[t] EXCEPT !.i = 0,
               !.pc = IF bucket_count_ # th[t].old_capacity THEN "rs_ungate" ELSE "q_lock"])
  /\ UNCHANGED <<config, shared, todo, spawned, abs, ub>>

\* Quiesce: mutex.lock() of the i-th mutex of mutexes_
RefQuiesceLock(t) ==
  /\ At(t, "q_lock")
  /\ mutexes_[th[t].i] = NoThread
  /\ mutexes_' = [mutexes_ EXCEPT ![th[t].i] = t]
  /\ Goto(t, "q_unlock")
  /\ UNCHANGED <<config, table_, bucket_count_, elem_count_, readers, writer, todo, spawned, abs, ub>>

\* mutant: Quiesce keeps every mutex it has locked, as a ScopedVectorLock would
RefQuiesceKeepLocked(t) ==
  /\ At(t, "q_unlock")
  /\ Set(t, [th[t] EXCEPT !.i = IF @ + 1 < Cardinality(DOMAIN mutexes_) THEN @ + 1 ELSE 0,
               !.pc = IF th[t].i + 1 < Cardinality(DOMAIN mutexes_) THEN "q_lock" ELSE "rs_store"])
  /\ UNCHANGED <<config, shared, todo, spawned, abs, ub>>

\* mutant: Quiesce stops after the first mutex
RefQuiesceFirstOnly(t) ==
  /\ At(t, "q_unlock")
  /\ mutexes_' = [mutexes_ EXCEPT ![th[t].i] = NoThread]
  /\ Set(t, [th[t] EXCEPT !.i = 0, !.pc = "rs_store"])
  /\ UNCHANGED <<config, table_, bucket_count_, elem_count_, readers, writer, todo, spawned, abs, ub>>

\* Quiesce: mutex.unlock() and the step to the next mutex or out of the loop
RefQuiesceUnlock(t) ==
  /\ At(t, "q_unlock")
  /\ mutexes_' = [mutexes_ EXCEPT ![th[t].i] = NoThread]
  /\ Set(t, [th[t] EXCEPT !.i = IF @ + 1 < Cardinality(DOMAIN mutexes_) THEN @ + 1 ELSE 0,
               !.pc = IF th[t].i + 1 < Cardinality(DOMAIN mutexes_) THEN "q_lock" ELSE "rs_store"])
  /\ UNCHANGED <<config, table_, bucket_count_, elem_count_, readers, writer, todo, spawned, abs, ub>>

\* mutant: the table grows by the initial capacity instead of doubling
ResizeStoreLinear(t, next) ==
  /\ At(t, "rs_store")
  /\ bucket_count_' = th[t].old_capacity + initial_bucket_count_
  /\ Goto(t, next)
  /\ UNCHANGED <<config, table_, elem_count_, mutexes_, readers, writer, todo, spawned, abs, ub>>

\* Resize: bucket_count_.store(new_capacity), new_capacity = 2 * old_capacity
ResizeStore(t, next) ==
  /\ At(t, "rs_store")
  /\ bucket_count_' = 2 * th[t].old_capacity
  /\ Goto(t, next)
  /\ UNCHANGED <<config, table_, elem_count_, mutexes_, readers, writer, todo, spawned, abs, ub>>

RefResizeStore(t) == variant = "refinable" /\ ResizeStore(t, "rs_mutexes")

\* mutant: Resize leaves mutexes_ as it is
RefResizeKeepMutexes(t) ==
  /\ At(t, "rs_mutexes")
  /\ Goto(t, "rs_build")
  /\ UNCHANGED <<config, shared, todo, spawned, abs, ub>>

\* Resize: mutexes_ = std::vector<std::mutex>(bucket_count_.load()); the old
\* mutexes are destroyed, which is undefined for a mutex some thread holds
RefResizeMutexes(t) ==
  /\ At(t, "rs_mutexes")
  /\ mutexes_' = FreshMutexes(bucket_count_)
  /\ IF \E i \in DOMAIN mutexes_ : mutexes_[i] # NoThread
     THEN Undefined(t)
     ELSE Goto(t, "rs_build") /\ UNCHANGED ub
  /\ UNCHANGED <<config, table_, bucket_count_, elem_count_, readers, writer, todo, spawned, abs>>

\* mutant: the rehash loop stops one bucket short of the end of table_
ResizeBuildOffByOne(t) ==
  /\ At(t, "rs_build")
  /\ Set(t, [th[t] EXCEPT !.pc = "rs_assign",
               !.table = Rehash(table_, TableSize(table_) - 1, 2 * th[t].old_capacity)])
  /\ UNCHANGED <<config, shared, todo, spawned, abs, ub>>

\* Resize: the local table of new_capacity buckets is filled from table_
ResizeBuild(t) ==
  /\ At(t, "rs_build")
  /\ Set(t, [th[t] EXCEPT !.pc = "rs_assign",
               !.table = Rehash(table_, TableSize(table_), 2 * th[t].old_capacity)])
  /\ UNCHANGED <<config, shared, todo, spawned, abs, ub>>

\* Resize: table_ = table
ResizeAssign(t, next) ==
  /\ At(t, "rs_assign")
  /\ table_' = th[t].table
  /\ SetWriting(t, [th[t] EXCEPT !.pc = next, !.table = <<>>], table_')
  /\ UNCHANGED <<config, bucket_count_, elem_count_, mutexes_, readers, writer, todo, spawned, abs, ub>>

RefResizeBuild(t) == variant = "refinable" /\ ResizeBuild(t)
RefResizeAssign(t) == variant = "refinable" /\ ResizeAssign(t, "rs_ungate")

\* mutant: Resize returns with resizing_mutex_ still locked exclusively
RefResizeKeepGate(t) ==
  /\ At(t, "rs_ungate")
  /\ Goto(t, "done")
  /\ UNCHANGED <<config, shared, todo, spawned, abs, ub>>

\* Resize returns: writer_lock goes out of scope and releases the gate
RefResizeUngate(t) ==
  /\ At(t, "rs_ungate")
  /\ writer' = NoThread
  /\ Goto(t, "done")
  /\ UNCHANGED <<config, table_, bucket_count_, elem_count_, mutexes_, readers, todo, spawned, abs, ub>>

\* the steps of a successful Remove after its ContainsNoLock test
RefRemoveStep(t) == RefRemoveAssert(t) \/ RefRemoveErase(t) \/ RefRemoveCount(t)

\* the steps of Add (Resize included); Contains and Remove share its
\* Acquire, ContainsNoLock test and Release
RefAddStep(t) ==
  \/ RefAcquireShared(t) \/ RefAcquireLoad(t) \/ RefAcquireLock(t) \/ RefAcquireUnshare(t)
  \/ RefBodyBucket(t) \/ RefBodyContains(t)
  \/ RefAddPush(t) \/ RefAddCount(t)
  \/ RefReleaseLoad(t) \/ RefReleaseUnlock(t)
  \/ PolicyLoadElemFirst(t) \/ PolicyLoadBucketFirst(t) \/ RefPolicyDecide(t)
  \/ RefResizeOld(t) \/ RefResizeGate(t) \/ RefResizeCheck(t)
  \/ RefQuiesceLock(t) \/ RefQuiesceUnlock(t)
  \/ RefResizeStore(t) \/ RefResizeMutexes(t) \/ RefResizeBuild(t) \/ RefResizeAssign(t)
  \/ RefResizeUngate(t)

RefStep(t) == RefAddStep(t) \/ RefRemoveStep(t)

\* ------------------------------------------------------- HashSetStriped

\* my_lock = hash(elem) % initial_bucket_count_ and
\* std::scoped_lock lock(mutexes_[my_lock])
StripedLock(t) ==
  /\ At(t, "s_lock")
  /\ LET my_lock == Hash(th[t].elem) % initial_bucket_count_
     IN /\ mutexes_[my_lock] = NoThread
        /\ mutexes_' = [mutexes_ EXCEPT ![my_lock] = t]
        /\ Set(t, [th[t] EXCEPT !.pc = "body_bucket", !.my_lock = my_lock])
  /\ UNCHANGED <<config, table_, bucket_count_, elem_count_, readers, writer, todo, spawned,
                 abs, ub>>

\* mutant: the bucket index is computed like the lock index, modulo
\* initial_bucket_count_
StripedBodyBucketByLock(t) ==
  /\ variant = "striped"
  /\ At(t, "body_bucket")
  /\ Set(t, [th[t] EXCEPT !.pc = "body_contains",
                          !.my_bucket = Hash(th[t].elem) % initial_bucket_count_])
  /\ UNCHANGED <<config, shared, todo, spawned, abs, ub>>

\* my_bucket = hash(elem) % bucket_count_.load()
StripedBodyBucket(t) ==
  /\ variant = "striped"
  /\ At(t, "body_bucket")
  /\ Set(t, [th[t] EXCEPT !.pc = "body_contains",
                          !.my_bucket = Hash(th[t].elem) % bucket_count_])
  /\ UNCHANGED <<config, shared, todo, spawned, abs, ub>>

StripedBodyContains(t) ==
  /\ variant = "striped"
  /\ At(t, "body_contains")
  /\ BodyContains(t, "s_unlock")
  /\ UNCHANGED <<config, shared, todo, spawned, abs>>

StripedAddPush(t) == variant = "striped" /\ AddPush(t)
\* mutant: Add keeps its stripe lock while it evaluates Policy() and resizes
StripedAddCountKeepLock(t) == variant = "striped" /\ AddCount(t, "policy")
StripedAddCount(t) == variant = "striped" /\ AddCount(t, "s_unlock")
StripedRemoveAssert(t) == variant = "striped" /\ RemoveAssert(t)
StripedRemoveErase(t) == variant = "striped" /\ RemoveErase(t)
StripedRemoveCount(t) == variant = "striped" /\ RemoveCount(t, "s_unlock")

\* mutant: Add evaluates Policy() whether or not it inserted its key
StripedUnlockThenPolicy(t) ==
  /\ At(t, "s_unlock")
  /\ mutexes_' = [mutexes_ EXCEPT ![th[t].my_lock] = NoThread]
  /\ IF mutexes_[th[t].my_lock] # t
     THEN Undefined(t)
     ELSE /\ Goto(t, IF th[t].op = "Add" THEN "policy" ELSE "done")
          /\ UNCHANGED ub
  /\ UNCHANGED <<config, table_, bucket_count_, elem_count_, readers, writer, todo, spawned,
                 abs>>

\* the scoped_lock goes out of scope: mutexes_[my_lock].unlock(); a successful
\* Add goes on to Policy() with no lock held
StripedUnlock(t) ==
  /\ At(t, "s_unlock")
  /\ mutexes_' = [mutexes_ EXCEPT ![th[t].my_lock] = NoThread]
  /\ IF mutexes_[th[t].my_lock] # t
     THEN Undefined(t)
     ELSE /\ Goto(t, IF th[t].op = "Add" /\ th[t].res THEN "policy" ELSE "done")
          /\ UNCHANGED ub
  /\ UNCHANGED <<config, table_, bucket_count_, elem_count_, readers, writer, todo, spawned,
                 abs>>

StripedPolicyDecide(t) == variant = "striped" /\ PolicyDecide(t, "rs_old", "done")
\* mutant: Resize does not take the ScopedVectorLock
StripedResizeOldNoLock(t) == variant = "striped" /\ ResizeOld(t, "rs_check")
StripedResizeOld(t) == variant = "striped" /\ ResizeOld(t, "sv_lock")

\* mutant: the ScopedVectorLock constructor locks the first mutex only
ScopedVectorLockFirstOnly(t) ==
  /\ At(t, "sv_lock")
  /\ mutexes_[th[t].i] = NoThread
  /\ mutexes_' = [mutexes_ EXCEPT ![th[t].i] = t]
  /\ Set(t, [th[t] EXCEPT !.i = 0, !.pc = "rs_check"])
  /\ UNCHANGED <<config, table_, bucket_count_, elem_count_, readers, writer, todo, spawned,
                 abs, ub>>

\* ScopedVectorLock constructor: mutex.lock() for every mutex, in index order
ScopedVectorLockLock(t) ==
  /\ At(t, "sv_lock")
  /\ mutexes_[th[t].i] = NoThread
  /\ mutexes_' = [mutexes_ EXCEPT ![th[t].i] = t]
  /\ Set(t, [th[t] EXCEPT !.i = IF @ + 1 < Cardinality(DOMAIN mutexes_) THEN @ + 1 ELSE 0,
               !.pc = IF th[t].i + 1 < Cardinality(DOMAIN mutexes_) THEN "sv_lock" ELSE "rs_check"])
  /\ UNCHANGED <<config, table_, bucket_count_, elem_count_, readers, writer, todo, spawned,
                 abs, ub>>

\* mutant: Resize goes on to the doubling without the recheck
StripedResizeNoRecheck(t) ==
  /\ variant = "striped"
  /\ At(t, "rs_check")
  /\ Goto(t, "rs_store")
  /\ UNCHANGED <<config, shared, todo, spawned, abs, ub>>

\* Resize: if (old_capacity != bucket_count_.load()) return;
StripedResizeCheck(t) ==
  /\ variant = "striped"
  /\ At(t, "rs_check")
  /\ Goto(t, IF th[t].old_capacity # bucket_count_ THEN "sv_unlock" ELSE "rs_store")
  /\ UNCHANGED <<config, shared, todo, spawned, abs, ub>>

StripedResizeStore(t) == variant = "striped" /\ ResizeStore(t, "rs_build")
StripedResizeBuild(t) == variant = "striped" /\ ResizeBuild(t)
StripedResizeAssign(t) == variant = "striped" /\ ResizeAssign(t, "sv_unlock")

\* ScopedVectorLock destructor: mutex.unlock() for every mutex, in index order;
\* unlocking a mutex the thread does not hold is undefined
ScopedVectorLockUnlock(t) ==
  /\ At(t, "sv_unlock")
  /\ mutexes_' = [mutexes_ EXCEPT ![th[t].i] = NoThread]
  /\ IF mutexes_[th[t].i] # t
     THEN Undefined(t)
     ELSE /\ Set(t, [th[t] EXCEPT
                 !.i = IF @ + 1 < Cardinality(DOMAIN mutexes_) THEN @ + 1 ELSE 0,
                 !.pc = IF th[t].i + 1 < Cardinality(DOMAIN mutexes_) THEN "sv_unlock"
                        ELSE "done"])
          /\ UNCHANGED ub
  /\ UNCHANGED <<config, table_, bucket_count_, elem_count_, readers, writer, todo, spawned,
                 abs>>

StripedRemoveStep(t) ==
  StripedRemoveAssert(t) \/ StripedRemoveErase(t) \/ StripedRemoveCount(t)

StripedAddStep(t) ==
  \/ StripedLock(t) \/ StripedBodyBucket(t) \/ StripedBodyContains(t)
  \/ StripedAddPush(t) \/ StripedAddCount(t)
  \/ StripedUnlock(t)
  \/ PolicyLoadElemFirst(t) \/ PolicyLoadBucketFirst(t) \/ StripedPolicyDecide(t)
  \/ StripedResizeOld(t) \/ ScopedVectorLockLock(t) \/ StripedResizeCheck(t)
  \/ StripedResizeStore(t) \/ StripedResizeBuild(t) \/ StripedResizeAssign(t)
  \/ ScopedVectorLockUnlock(t)

StripedStep(t) == StripedAddStep(t) \/ StripedRemoveStep(t)

\* ------------------------------------------------- HashSetCoarseGrained

\* std::scoped_lock lock(mutex_); mutex_ is modelled as mutexes_[0]
CoarseLock(t) ==
  /\ At(t, "c_lock")
  /\ mutexes_[0] = NoThread
  /\ mutexes_' = [mutexes_ EXCEPT ![0] = t]
  /\ Goto(t, "body_bucket")
  /\ UNCHANGED <<config, table_, bucket_count_, elem_count_, readers, writer, todo, spawned,
                 abs, ub>>

\* ContainsNoLock: my_bucket = hash(elem) % bucket_count_
CoarseBodyBucket(t) ==
  /\ variant = "coarse"
  /\ At(t, "body_bucket")
  /\ Set(t, [th[t] EXCEPT !.pc = "body_contains",
                          !.my_bucket = Hash(th[t].elem) % bucket_count_])
  /\ UNCHANGED <<config, shared, todo, spawned, abs, ub>>

\* mutant: the early returns of Add, Remove and Contains leave mutex_ locked
CoarseBodyContainsLeak(t) ==
  /\ variant = "coarse"
  /\ At(t, "body_contains")
  /\ BodyContains(t, "done")
  /\ UNCHANGED <<config, shared, todo, spawned, abs>>

CoarseBodyContains(t) ==
  /\ variant = "coarse"
  /\ At(t, "body_contains")
  /\ BodyContains(t, "c_unlock")
  /\ UNCHANGED <<config, shared, todo, spawned, abs>>

\* Add: push_back, fetch_add, then Policy() and Resize() with mutex_ still held
CoarseAddPush(t) == variant = "coarse" /\ AddPush(t)
CoarseAddCount(t) == variant = "coarse" /\ AddCount(t, "policy")
CoarseRemoveAssert(t) == variant = "coarse" /\ RemoveAssert(t)
CoarseRemoveErase(t) == variant = "coarse" /\ RemoveErase(t)
CoarseRemoveCount(t) == variant = "coarse" /\ RemoveCount(t, "c_unlock")
CoarsePolicyDecide(t) == variant = "coarse" /\ PolicyDecide(t, "rs_old", "c_unlock")

\* mutant: Add gives up mutex_ when it calls Resize()
CoarseResizeOldUnlocked(t) ==
  /\ variant = "coarse"
  /\ At(t, "rs_old")
  /\ mutexes_' = [mutexes_ EXCEPT ![0] = NoThread]
  /\ Set(t, [th[t] EXCEPT !.pc = "rs_store", !.old_capacity = bucket_count_])
  /\ UNCHANGED <<config, table_, bucket_count_, elem_count_, readers, writer, todo, spawned,
                 abs, ub>>

\* Resize: no lock of its own and no recheck; bucket_count_ = 2 * old_capacity
CoarseResizeOld(t) == variant = "coarse" /\ ResizeOld(t, "rs_store")
CoarseResizeStore(t) == variant = "coarse" /\ ResizeStore(t, "rs_build")
CoarseResizeBuild(t) == variant = "coarse" /\ ResizeBuild(t)
CoarseResizeAssign(t) == variant = "coarse" /\ ResizeAssign(t, "c_unlock")

\* the scoped_lock goes out of scope on every return path
CoarseUnlock(t) ==
  /\ At(t, "c_unlock")
  /\ mutexes_' = [mutexes_ EXCEPT ![0] = NoThread]
  /\ IF mutexes_[0] # t
     THEN Undefined(t)
     ELSE Goto(t, "done") /\ UNCHANGED ub
  /\ UNCHANGED <<config, table_, bucket_count_, elem_count_, readers, writer, todo, spawned,
                 abs>>

CoarseRemoveStep(t) ==
  CoarseRemoveAssert(t) \/ CoarseRemoveErase(t) \/ CoarseRemoveCount(t)

CoarseAddStep(t) ==
  \/ CoarseLock(t) \/ CoarseBodyBucket(t) \/ CoarseBodyContains(t)
  \/ CoarseAddPush(t) \/ CoarseAddCount(t)
  \/ PolicyLoadElemFirst(t) \/ PolicyLoadBucketFirst(t) \/ CoarsePolicyDecide(t)
  \/ CoarseResizeOld(t) \/ CoarseResizeStore(t) \/ CoarseResizeBuild(t)
  \/ CoarseResizeAssign(t) \/ CoarseUnlock(t)

CoarseStep(t) == CoarseAddStep(t) \/ CoarseRemoveStep(t)

\* ---------------------------------------------------- HashSetSequential

\* Contains(elem), also as called first by Add and Remove:
\* my_bucket = hash(elem) % bucket_count_ and std::find over a copy of the bucket
SeqContains(t) ==
  /\ At(t, "q_contains")
  /\ LET b == Hash(th[t].elem) % bucket_count_
         found == ContainsNoLock(table_, th[t].elem, b)
         in_abs == th[t].elem \in abs
     IN CASE th[t].op = "Add" ->
               IF found
               THEN Set(t, [th[t] EXCEPT !.pc = "done", !.res = FALSE,
                                       !.linearized = TRUE, !.lin = ~in_abs])
               ELSE Set(t, [th[t] EXCEPT !.pc = "add_push", !.my_bucket = b])
          [] th[t].op = "Remove" ->
               IF ~found
               THEN Set(t, [th[t] EXCEPT !.pc = "done", !.res = FALSE,
                                       !.linearized = TRUE, !.lin = in_abs])
               ELSE Set(t, [th[t] EXCEPT !.pc = "q_erase", !.my_bucket = b])
          [] OTHER ->
               Set(t, [th[t] EXCEPT !.pc = "done", !.res = found,
                                  !.linearized = TRUE, !.lin = in_abs])
  /\ UNCHANGED <<config, shared, todo, spawned, abs, ub>>

SeqAddPush(t) == variant = "sequential" /\ AddPush(t)
SeqAddCount(t) == variant = "sequential" /\ AddCount(t, "policy")
SeqPolicyDecide(t) == variant = "sequential" /\ PolicyDecide(t, "rs_old", "done")
SeqResizeOld(t) == variant = "sequential" /\ ResizeOld(t, "rs_store")
SeqResizeStore(t) == variant = "sequential" /\ ResizeStore(t, "rs_build")
SeqResizeBuild(t) == variant = "sequential" /\ ResizeBuild(t)
SeqResizeAssign(t) == variant = "sequential" /\ ResizeAssign(t, "done")

\* Remove: small_table = table_[my_bucket] is a copy, and the erase-remove
\* acts on the copy: table_ is not written. The abstract set drops the key.
SeqRemoveEraseCopy(t) ==
  /\ At(t, "q_erase")
  /\ abs' = abs \ {th[t].elem}
  /\ Set(t, [th[t] EXCEPT !.pc = "rem_count", !.res = TRUE,
                          !.linearized = TRUE, !.lin = th[t].elem \in abs])
  /\ UNCHANGED <<config, shared, todo, spawned, ub>>

\* mutant: Remove does not decrement elem_count_
SeqRemoveNoCount(t) ==
  /\ variant = "sequential"
  /\ At(t, "rem_count")
  /\ Goto(t, "done")
  /\ UNCHANGED <<config, shared, todo, spawned, abs, ub>>

\* Remove: elem_count_--
SeqRemoveCount(t) == variant = "sequential" /\ RemoveCount(t, "done")

SeqAddStep(t) ==
  \/ SeqContains(t) \/ SeqAddPush(t) \/ SeqAddCount(t)
  \/ PolicyLoadElemFirst(t) \/ PolicyLoadBucketFirst(t) \/ SeqPolicyDecide(t)
  \/ SeqResizeOld(t) \/ SeqResizeStore(t) \/ SeqResizeBuild(t) \/ SeqResizeAssign(t)

SeqRemoveStep(t) == SeqRemoveEraseCopy(t) \/ SeqRemoveCount(t)

SeqStep(t) == SeqAddStep(t) \/ SeqRemoveStep(t)

\* ------------------------------------------------------------ construction

\* the constructors: capacity empty buckets, elem_count_ 0; nlocks mutexes
Constructed(v, capacity, nlocks) ==
  /\ variant = v
  /\ initial_bucket_count_ = capacity
  /\ table_ = EmptyTable(capacity)
  /\ bucket_count_ = capacity
  /\ elem_count_ = 0
  /\ mutexes_ = FreshMutexes(nlocks)
  /\ readers = {}
  /\ writer = NoThread
  /\ th = [t \in Threads |-> IdleTh]
  /\ abs = {}
  /\ ub = FALSE

\* the prefill, run by thread 1: Add(0), Add(1), ..., Add(PrefillCount - 1)
Prefill == [t \in Threads |->
             IF t = 1 THEN [k \in 1..PrefillCount |-> <<"Add", k - 1>>] ELSE <<>>]

\* HashSetRefinable(InitialCapacity), prefilled, then shared by NThreads free clients
InitRefinable ==
  /\ Constructed("refinable", InitialCapacity, InitialCapacity)
  /\ todo = Prefill
  /\ spawned = FALSE

NextRefinable ==
  \/ Spawn
  \/ \E t \in Threads : ProgInvoke(t) \/ FreeInvoke(t) \/ Size(t) \/ Return(t) \/ RefStep(t)

SpecRefinable == InitRefinable /\ [][NextRefinable]_vars


\* HashSetStriped(InitialCapacity), prefilled, then shared by NThreads free clients
InitStriped ==
  /\ Constructed("striped", InitialCapacity, InitialCapacity)
  /\ todo = Prefill
  /\ spawned = FALSE

NextStriped ==
  \/ Spawn
  \/ \E t \in Threads : ProgInvoke(t) \/ FreeInvoke(t) \/ Size(t) \/ Return(t) \/ StripedStep(t)

SpecStriped == InitStriped /\ [][NextStriped]_vars

\* HashSetCoarseGrained(InitialCapacity), prefilled, then shared by NThreads free clients
InitCoarse ==
  /\ Constructed("coarse", InitialCapacity, 1)
  /\ todo = Prefill
  /\ spawned = FALSE

NextCoarse ==
  \/ Spawn
  \/ \E t \in Threads : ProgInvoke(t) \/ FreeInvoke(t) \/ Size(t) \/ Return(t) \/ CoarseStep(t)

SpecCoarse == InitCoarse /\ [][NextCoarse]_vars


\* any of the three concurrent classes, prefilled, then shared by NThreads free clients
InitConcurrent == InitCoarse \/ InitStriped \/ InitRefinable

NextConcurrent ==
  \/ Spawn
  \/ \E t \in Threads :
       \/ ProgInvoke(t) \/ FreeInvoke(t) \/ Size(t) \/ Return(t)
       \/ RefStep(t) \/ StripedStep(t) \/ CoarseStep(t)

SpecConcurrent == InitConcurrent /\ [][NextConcurrent]_vars

\* T threads each Add a range of RangeSize keys of their own to one fresh
\* striped or refinable set: thread t adds (t-1)*RangeSize .. t*RangeSize-1
AdderProgram ==
  [t \in Threads |-> [k \in 1..RangeSize |-> <<"Add", (t - 1) * RangeSize + k - 1>>]]

InitAdders ==
  /\ \/ Constructed("striped", InitialCapacity, InitialCapacity)
     \/ Constructed("refinable", InitialCapacity, InitialCapacity)
  /\ todo = AdderProgram
  /\ spawned = FALSE

NextAdders ==
  \E t \in Threads : ProgInvoke(t) \/ Return(t) \/ RefAddStep(t) \/ StripedAddStep(t)

SpecAdders == InitAdders /\ [][NextAdders]_vars

\* benchmark::ThreadBody of worker id = t - 1 on keys id*chunk_size + k,
\* k < 2*chunk_size: Add and Size for every key; Passes passes of Contains
\* over the keys (the Remove and Size of a contained key divisible by
\* RemoveDivisor are added by BenchReturn); Add and Size for every key again
\* mutant: worker id starts its range at id * 2 * chunk_size
BenchKeyDisjoint(t, k) == (t - 1) * 2 * ChunkSize + k

BenchKey(t, k) == (t - 1) * ChunkSize + k

\* the keys of worker t: the elem values of its loops over k < chunk_size * 2
BenchRange(t) == {BenchKey(t, k) : k \in 0..(2 * ChunkSize - 1)}

\* worker t is inside a call of Add or Remove
Mutating(t) == ~At(t, "idle") /\ th[t].op \in {"Add", "Remove"}

BenchAdds(t) ==
  [n \in 1..(4 * ChunkSize) |->
     IF n % 2 = 1 THEN <<"Add", BenchKey(t, (n - 1) \div 2)>> ELSE <<"Size", 0>>]

BenchPasses(t) ==
  [n \in 1..(Passes * 2 * ChunkSize) |-> <<"Contains", BenchKey(t, (n - 1) % (2 * ChunkSize))>>]

BenchProgram == [t \in Threads |-> BenchAdds(t) \o BenchPasses(t) \o BenchAdds(t)]

\* a call of ThreadBody returns; after Contains(elem) returned true for an elem
\* divisible by RemoveDivisor the worker calls Remove(elem) and Size() next
BenchReturn(t) ==
  /\ At(t, "done")
  /\ Set(t, IdleTh)
  /\ todo' = [todo EXCEPT ![t] =
       IF th[t].op = "Contains" /\ th[t].res /\ th[t].elem % RemoveDivisor = 0
       THEN <<<<"Remove", th[t].elem>>, <<"Size", 0>>>> \o @
       ELSE @]
  /\ UNCHANGED <<config, shared, spawned, abs, ub>>

\* RunBenchmark: one set of any of the three concurrent classes, NThreads workers
InitBench ==
  /\ \/ Constructed("coarse", BenchCapacity, 1)
     \/ Constructed("striped", BenchCapacity, BenchCapacity)
     \/ Constructed("refinable", BenchCapacity, BenchCapacity)
  /\ todo = BenchProgram
  /\ spawned = FALSE

NextBench ==
  \E t \in Threads :
    ProgInvoke(t) \/ BenchReturn(t) \/ Size(t) \/ RefStep(t) \/ StripedStep(t) \/ CoarseStep(t)

SpecBench == InitBench /\ [][NextBench]_vars

\* a budget of n calls of the free client's choice
Budget(n) == [i \in 1..n |-> <<"Any", 0>>]

\* one thread alone on a fresh coarse, striped or refinable set: the prefill,
\* then MaxCalls calls of its choice
InitSingle ==
  /\ \/ Constructed("coarse", InitialCapacity, 1)
     \/ Constructed("striped", InitialCapacity, InitialCapacity)
     \/ Constructed("refinable", InitialCapacity, InitialCapacity)
  /\ todo = [t \in Threads |-> IF t = 1 THEN Prefill[1] \o Budget(MaxCalls) ELSE <<>>]
  /\ spawned = FALSE

NextSingle ==
  \/ ProgInvoke(1) \/ AnyInvoke(1) \/ Size(1) \/ Return(1)
  \/ RefStep(1) \/ StripedStep(1) \/ CoarseStep(1)

SpecSingle == InitSingle /\ [][NextSingle]_vars

\* one thread on a fresh HashSetSequential: the prefill, then MaxCalls calls
\* of its choice
InitSeq ==
  /\ Constructed("sequential", InitialCapacity, 0)
  /\ todo = [t \in Threads |-> IF t = 1 THEN Prefill[1] \o Budget(MaxCalls) ELSE <<>>]
  /\ spawned = FALSE

NextSeq == ProgInvoke(1) \/ AnyInvoke(1) \/ Size(1) \/ Return(1) \/ SeqStep(1)

SpecSeq == InitSeq /\ [][NextSeq]_vars

\* one thread alone on a fresh set of any of the four classes: the prefill,
\* then MaxCalls calls of its choice
InitAlone == InitSingle \/ InitSeq

NextAlone == NextSingle \/ NextSeq

SpecAlone == InitAlone /\ [][NextAlone]_vars

\* one thread on a fresh HashSetRefinable(S4Capacity): Add(0), ...,
\* Add(S4Count - 1), then Size() and Contains(S4Count - 1)
S4Program ==
  [n \in 1..(S4Count + 2) |->
     IF n <= S4Count THEN <<"Add", n - 1>>
     ELSE IF n = S4Count + 1 THEN <<"Size", 0>> ELSE <<"Contains", S4Count - 1>>]

InitS4 ==
  /\ Constructed("refinable", S4Capacity, S4Capacity)
  /\ todo = [t \in Threads |-> IF t = 1 THEN S4Program ELSE <<>>]
  /\ spawned = FALSE

NextS4 == ProgInvoke(1) \/ Size(1) \/ Return(1) \/ RefAddStep(1)

SpecS4 == InitS4 /\ [][NextS4]_vars

\* every class: the three concurrent ones as in SpecConcurrent, and
\* HashSetSequential used by one thread as in SpecSeq
InitEveryClass == InitConcurrent \/ InitSeq

NextEveryClass ==
  \/ (variant # "sequential" /\ Spawn)
  \/ \E t \in Threads :
       \/ ProgInvoke(t) \/ FreeInvoke(t) \/ AnyInvoke(t) \/ Size(t) \/ Return(t)
       \/ RefStep(t) \/ StripedStep(t) \/ CoarseStep(t) \/ SeqStep(t)

SpecEveryClass == InitEveryClass /\ [][NextEveryClass]_vars

\* NThreads clients on a fresh coarse, striped or refinable set, each making
\* ChurnCalls calls of its choice on the keys of Keys. With at most NKeys keys
\* stored Policy() is never true, so no step of Resize is part of the
\* next-state relation.
InitChurn ==
  /\ \/ Constructed("coarse", InitialCapacity, 1)
     \/ Constructed("striped", InitialCapacity, InitialCapacity)
     \/ Constructed("refinable", InitialCapacity, InitialCapacity)
  /\ todo = [t \in Threads |-> Budget(ChurnCalls)]
  /\ spawned = FALSE

NextChurn ==
  \E t \in Threads :
    \/ AnyInvoke(t) \/ Size(t) \/ Return(t)
    \/ RefAcquireShared(t) \/ RefAcquireLoad(t) \/ RefAcquireLock(t) \/ RefAcquireUnshare(t)
    \/ RefBodyBucket(t) \/ RefBodyContains(t) \/ RefAddPush(t) \/ RefAddCount(t)
    \/ RefRemoveStep(t) \/ RefReleaseLoad(t) \/ RefReleaseUnlock(t) \/ RefPolicyDecide(t)
    \/ StripedLock(t) \/ StripedBodyBucket(t) \/ StripedBodyContains(t)
    \/ StripedAddPush(t) \/ StripedAddCount(t) \/ StripedRemoveStep(t)
    \/ StripedUnlock(t) \/ StripedPolicyDecide(t)
    \/ CoarseLock(t) \/ CoarseBodyBucket(t) \/ CoarseBodyContains(t)
    \/ CoarseAddPush(t) \/ CoarseAddCount(t) \/ CoarseRemoveStep(t)
    \/ CoarsePolicyDecide(t) \/ CoarseUnlock(t)
    \/ PolicyLoadElemFirst(t) \/ PolicyLoadBucketFirst(t)

SpecChurn == InitChurn /\ [][NextChurn]_vars

\* The missed-resize scenario on a striped or refinable set of MissedCapacity
\* buckets. Thread 1 fills the set up to the threshold; then CrowdSize threads
\* each Add one new key. The schedule of this first phase is fixed: a thread
\* starts its Add when the one before it waits for the lock of Resize (or has
\* returned), and no thread is granted the lock of Resize before every thread
\* waits for it or has returned. All of them have then read the same
\* old_capacity, one doubles and the others return at the recheck. When all
\* have returned, main joins them and two clients go on, unrestricted, with
\* calls of Add, Contains and Size.
CrowdSize == 2 * (PolicyThreshold + 1) * MissedCapacity - PolicyThreshold * MissedCapacity
Crowd == 1..CrowdSize

\* number of keys stored when the crowd has returned
CrowdKeys == PolicyThreshold * MissedCapacity + CrowdSize

\* the clients' keys after the join: the last key stored and two new keys
MissedKeys == (CrowdKeys - 1)..(CrowdKeys + 1)

CrowdProgram ==
  [t \in Crowd |->
     (IF t = 1 THEN [k \in 1..(PolicyThreshold * MissedCapacity) |-> <<"Add", k - 1>>] ELSE <<>>)
     \o <<<<"Add", PolicyThreshold * MissedCapacity + t - 1>>>>]

InitMissed ==
  /\ variant \in {"striped", "refinable"}
  /\ initial_bucket_count_ = MissedCapacity
  /\ table_ = EmptyTable(MissedCapacity)
  /\ bucket_count_ = MissedCapacity
  /\ elem_count_ = 0
  /\ mutexes_ = FreshMutexes(MissedCapacity)
  /\ readers = {}
  /\ writer = NoThread
  /\ th = [t \in Crowd |-> IdleTh]
  /\ abs = {}
  /\ ub = FALSE
  /\ todo = CrowdProgram
  /\ spawned = FALSE

\* the thread waits for the lock of Resize, or its last call has returned
AtResizeLock(t) ==
  todo[t] = <<>> /\ th[t].pc \in {"sv_lock", "rs_gate", "done", "idle"}

\* the thread has made its last call and is at or past the lock of Resize
PastResizeLock(t) ==
  \/ AtResizeLock(t)
  \/ todo[t] = <<>> /\ th[t].pc \in {"rs_check", "q_lock", "q_unlock", "rs_store", "rs_mutexes",
                                      "rs_build", "rs_assign", "rs_ungate", "sv_unlock"}

\* first phase: the threads of the crowd start their calls one after the other
CrowdInvoke(t) ==
  /\ ~spawned
  /\ IF t = 1 THEN TRUE ELSE AtResizeLock(t - 1)
  /\ ProgInvoke(t)

\* the lock of Resize (the ScopedVectorLock, the writer lock) is taken; in the
\* first phase only when every thread of the crowd is at or past it
ResizeLock(t) ==
  /\ spawned \/ \A u \in Crowd : PastResizeLock(u)
  /\ ScopedVectorLockLock(t) \/ RefResizeGate(t)

\* main joins the crowd: every call has returned
CrowdJoin ==
  /\ ~spawned
  /\ \A t \in Crowd : At(t, "idle") /\ todo[t] = <<>>
  /\ spawned' = TRUE
  /\ UNCHANGED <<config, shared, th, todo, abs, ub>>

\* second phase: a client calls Add, Contains or Size
ClientInvoke(t) ==
  /\ At(t, "idle")
  /\ spawned
  /\ \E op \in {"Add", "Contains", "Size"}, k \in MissedKeys :
       /\ op = "Size" => k = CrowdKeys
       /\ Set(t, [IdleTh EXCEPT !.pc = EntryPc(op), !.op = op,
                                !.elem = IF op = "Size" THEN 0 ELSE k])
  /\ UNCHANGED <<config, shared, todo, spawned, abs, ub>>

NextMissed ==
  \/ CrowdJoin
  \/ \E t \in Threads : ClientInvoke(t)
  \/ \E t \in Crowd :
       \/ CrowdInvoke(t) \/ ResizeLock(t) \/ Size(t) \/ Return(t)
       \/ RefAcquireShared(t) \/ RefAcquireLoad(t) \/ RefAcquireLock(t) \/ RefAcquireUnshare(t)
       \/ RefBodyBucket(t) \/ RefBodyContains(t) \/ RefAddPush(t) \/ RefAddCount(t)
       \/ RefReleaseLoad(t) \/ RefReleaseUnlock(t)
       \/ PolicyLoadElemFirst(t) \/ PolicyLoadBucketFirst(t) \/ RefPolicyDecide(t)
       \/ RefResizeOld(t) \/ RefResizeCheck(t) \/ RefQuiesceLock(t) \/ RefQuiesceUnlock(t)
       \/ RefResizeStore(t) \/ RefResizeMutexes(t) \/ RefResizeBuild(t) \/ RefResizeAssign(t)
       \/ RefResizeUngate(t)
       \/ StripedLock(t) \/ StripedBodyBucket(t) \/ StripedBodyContains(t)
       \/ StripedAddPush(t) \/ StripedAddCount(t) \/ StripedUnlock(t) \/ StripedPolicyDecide(t)
       \/ StripedResizeOld(t) \/ StripedResizeCheck(t) \/ StripedResizeStore(t)
       \/ StripedResizeBuild(t) \/ StripedResizeAssign(t) \/ ScopedVectorLockUnlock(t)

SpecMissed == InitMissed /\ [][NextMissed]_vars

\* demo_sequential's main(initial_capacity, count): Add(0..count-1), Size();
\* then for every i < count: Size(), Contains(i), Remove(i); then Size().
\* A Size entry carries the value main compares the result with.
DemoProgram(count) ==
  [i \in 1..count |-> <<"Add", i - 1>>]
  \o <<<<"Size", count>>>>
  \o [n \in 1..(3 * count) |->
        LET i == (n - 1) \div 3
        IN CASE n % 3 = 1 -> <<"Size", count - i>>
             [] n % 3 = 2 -> <<"Contains", i>>
             [] OTHER -> <<"Remove", i>>]
  \o <<<<"Size", 0>>>>

InitSeqDemo ==
  /\ \E capacity \in 1..MaxDemoCapacity : Constructed("sequential", capacity, 0)
  /\ \E count \in 0..MaxCount :
       todo = [t \in Threads |-> IF t = 1 THEN DemoProgram(count) ELSE <<>>]
  /\ spawned = FALSE

NextSeqDemo == ProgInvoke(1) \/ Size(1) \/ Return(1) \/ SeqStep(1)

SpecSeqDemo == InitSeqDemo /\ [][NextSeqDemo]_vars

\* finitely many operations under a fair scheduler: thread 1 makes the
\* prefill; then every thread makes LiveCalls calls of its choice, on one
\* fresh striped or refinable set
InitLive ==
  /\ \/ Constructed("striped", InitialCapacity, InitialCapacity)
     \/ Constructed("refinable", InitialCapacity, InitialCapacity)
  /\ todo = [t \in Threads |-> Prefill[t] \o Budget(LiveCalls)]
  /\ spawned = FALSE

\* the clients start their own calls when the last call of the prefill has been made
LiveInvoke(t) ==
  /\ Len(todo[1]) <= LiveCalls
  /\ AnyInvoke(t)

\* all a thread can do: start its next call, run it, return from it
ThreadStep(t) ==
  ProgInvoke(t) \/ LiveInvoke(t) \/ Size(t) \/ Return(t) \/ RefStep(t) \/ StripedStep(t)

NextLive == \E t \in Threads : ThreadStep(t)

\* the scheduler is fair: a thread that can take a step (a thread waiting for
\* a lock can when the lock is free) eventually takes one
SpecLive == InitLive /\ [][NextLive]_vars /\ \A t \in Threads : WF_vars(ThreadStep(t))

\* every client has made all its calls and every call has returned
AllJoined == \A t \in Threads : At(t, "idle") /\ todo[t] = <<>>

\* what Contains(k) returns when it runs with no other call in progress
ContainsQuiescent(k) ==
  /\ DOMAIN table_ = 0..(bucket_count_ - 1)
  /\ ContainsNoLock(table_, k, Hash(k) % bucket_count_)

\* ------------------------------------------------------------------ claims

\* every call that has passed its linearization point carries the result the
\* abstract set gave at that point
ResultsMatch ==
  \A t \in Threads : (th[t].op \in PerKeyOps /\ th[t].linearized) => th[t].res = th[t].lin

\* a thread is inside the bucket-level critical section of a per-key call
InBody(t) ==
  th[t].pc \in {"body_bucket", "body_contains", "add_push", "add_count", "rem_assert",
                "rem_erase", "rem_count"}

\* C1: HashSetRefinable is linearizable: under every interleaving of Add,
\* Remove and Contains of the clients, resizes included, no thread executes
\* undefined behaviour and every call's result is the result of the same
\* operation applied atomically to the abstract set at the call's
\* linearization point (the bucket scan or the bucket mutation, which lies
\* between invocation and return).
LinearizableRefinable ==
  variant = "refinable" => (~ub /\ ResultsMatch)

\* C1 witness: a Remove has returned true on a table that was doubled while
\* another thread is in the middle of a Resize swap
LinearizableRefinableWitness ==
  /\ variant = "refinable"
  /\ \E t, u \in Threads :
       /\ At(t, "done") /\ th[t].op = "Remove" /\ th[t].res
       /\ At(u, "rs_assign")
       /\ bucket_count_ = 4 * InitialCapacity

\* C2: HashSetStriped is linearizable: under every interleaving of Add,
\* Remove and Contains of the clients, resizes included, no thread executes
\* undefined behaviour and every call's result is the result of the same
\* operation applied atomically to the abstract set at the call's
\* linearization point.
LinearizableStriped ==
  variant = "striped" => (~ub /\ ResultsMatch)

\* C2 witness: an Add has returned false on a doubled table while another
\* thread holds every stripe lock and is about to replace table_
LinearizableStripedWitness ==
  /\ variant = "striped"
  /\ \E t, u \in Threads :
       /\ At(t, "done") /\ th[t].op = "Add" /\ ~th[t].res
       /\ At(u, "rs_assign")
       /\ bucket_count_ = 4 * InitialCapacity

\* a thread is between the lock and the unlock of the coarse mutex_
InCoarseCritical(t) ==
  th[t].pc \notin {"idle", "c_lock", "size", "done", "ub", "abort"}

\* C3: in HashSetCoarseGrained at most one thread is inside the critical
\* section of Add/Remove/Contains, a thread is inside it exactly when it holds
\* mutex_, so the mutex is free whenever no call is in progress (every exit
\* path unlocks), and every call takes effect atomically.
CoarseMutualExclusion ==
  variant = "coarse" =>
    /\ Cardinality({t \in Threads : InCoarseCritical(t)}) <= 1
    /\ \A t \in Threads : InCoarseCritical(t) <=> mutexes_[0] = t
    /\ (\A t \in Threads : At(t, "idle") \/ At(t, "done")) => mutexes_[0] = NoThread
    /\ ~ub
    /\ ResultsMatch

\* C3 witness: after a resize, an Add has returned false by its early return,
\* no other call is in progress and mutex_ is free
CoarseMutualExclusionWitness ==
  /\ variant = "coarse"
  /\ bucket_count_ = 2 * InitialCapacity
  /\ mutexes_[0] = NoThread
  /\ \E t \in Threads :
       /\ At(t, "done") /\ th[t].op = "Add" /\ ~th[t].res
       /\ \A u \in Threads \ {t} : At(u, "idle")

\* a call is in progress on thread t
InCall(t) == th[t].pc \notin {"idle", "ub", "abort"}

\* C9: HashSetRefinable is deadlock-free: in every reachable state in which
\* some call is in progress (in particular when a thread is blocked on the
\* resize gate or on a bucket mutex), some thread can take a step of its call.
DeadlockFreeRefinable ==
  (variant = "refinable" /\ \E t \in Threads : InCall(t)) =>
    \E u \in Threads : ENABLED (RefStep(u) \/ Size(u) \/ Return(u))

\* C9 witness: a resizing thread holds the gate exclusively and is blocked in
\* Quiesce on a bucket mutex held by a thread inside its critical section
DeadlockFreeRefinableWitness ==
  /\ variant = "refinable"
  /\ \E t, u \in Threads :
       /\ At(t, "q_lock") /\ writer = t
       /\ mutexes_[th[t].i] = u /\ InBody(u)

\* C10: HashSetStriped is deadlock-free: a thread inside a per-key call holds
\* exactly its own stripe lock, a thread in Resize holds exactly the stripe
\* locks below the one it is acquiring or releasing next (ascending index
\* order), every other thread holds none (Add has released its stripe lock
\* before Policy and Resize), and whenever a call is in progress some thread
\* can take a step.
DeadlockFreeStriped ==
  variant = "striped" =>
    /\ \A t \in Threads :
         Held(t) = CASE InBody(t) \/ At(t, "s_unlock") -> {th[t].my_lock}
                     [] At(t, "sv_lock") -> 0..(th[t].i - 1)
                     [] th[t].pc \in {"rs_check", "rs_store", "rs_build", "rs_assign"} ->
                          DOMAIN mutexes_
                     [] At(t, "sv_unlock") -> th[t].i..(Cardinality(DOMAIN mutexes_) - 1)
                     [] OTHER -> {}
    /\ (\E t \in Threads : InCall(t)) =>
         \E u \in Threads : ENABLED (StripedStep(u) \/ Size(u) \/ Return(u))

\* C10 witness: a thread in Resize holds stripe lock 0 and waits for stripe
\* lock 1, which a thread inside a per-key call holds
DeadlockFreeStripedWitness ==
  /\ variant = "striped"
  /\ \E t, u \in Threads :
       /\ At(t, "sv_lock") /\ th[t].i = 1 /\ mutexes_[0] = t
       /\ mutexes_[1] = u /\ InBody(u)


AddedKeys == 0..(NThreads * RangeSize - 1)

\* C4: no-loss concurrency: when T threads have each added their own disjoint
\* range to one striped or refinable set and all have finished, Size() is the
\* total number of keys added, Contains(k) is true for every added key, every
\* key is stored exactly once; no thread has executed undefined behaviour.
NoLostAdd ==
  /\ ~ub
  /\ AllJoined =>
       /\ elem_count_ = NThreads * RangeSize
       /\ \A k \in AddedKeys : ContainsQuiescent(k)
       /\ SumLen(table_, 0, TableSize(table_)) = NThreads * RangeSize

\* C4 witness: all adders have finished and the table was doubled on the way
NoLostAddWitness ==
  /\ AllJoined
  /\ elem_count_ = NThreads * RangeSize
  /\ bucket_count_ > InitialCapacity


\* RunBenchmark's expected_size = chunk_size * (num_threads + 1)
ExpectedSize == ChunkSize * (NThreads + 1)

\* C5: benchmark end state: after all workers have run ThreadBody on one
\* coarse, striped or refinable set and are joined, Size() equals
\* chunk_size * (num_threads + 1) and Contains(v) is true for every v below
\* that number, under every interleaving; no worker executes undefined
\* behaviour or fails the assertion of Remove.
BenchmarkEndState ==
  /\ ~ub
  /\ \A t \in Threads : ~At(t, "abort")
  /\ AllJoined =>
       /\ elem_count_ = ExpectedSize
       /\ \A v \in 0..(ExpectedSize - 1) : ContainsQuiescent(v)

\* C5 witness: all workers are joined, on a table that was resized by the run
BenchmarkEndStateWitness ==
  /\ AllJoined
  /\ elem_count_ = ExpectedSize
  /\ bucket_count_ > BenchCapacity


\* the call of thread 1 that has just completed, as the reference set answers it
ReferenceAnswer ==
  /\ (th[1].op \in PerKeyOps /\ th[1].linearized) => th[1].res = th[1].lin
  /\ (th[1].op = "Size" /\ At(1, "done")) => th[1].size = Cardinality(abs)

\* C6: single-threaded equivalence: in every sequence of Add, Remove, Contains
\* and Size calls made by one thread on a fresh coarse, striped or refinable
\* set, resizes included, every call returns what the same call returns on a
\* reference mathematical set (Size returns its cardinality), and no call
\* fails the assertion of Remove or executes undefined behaviour.
SingleThreadedEquivalence ==
  variant \in {"coarse", "striped", "refinable"} =>
    (~ub /\ ~At(1, "abort") /\ ReferenceAnswer)

\* C6 witness: after a resize, a Remove of a present key has returned true and
\* the reference set has dropped the key
SingleThreadedEquivalenceWitness ==
  /\ variant \in {"coarse", "striped", "refinable"}
  /\ bucket_count_ > InitialCapacity
  /\ At(1, "done") /\ th[1].op = "Remove" /\ th[1].res
  /\ th[1].elem \notin abs
  /\ todo[1] = <<>>

\* C7: in HashSetSequential Remove(k) on a present key deletes k from the
\* stored bucket: every later Contains(k), Remove(k) and Add(k) returns what it
\* returns on the reference set from which k was deleted (after Add(k);
\* Remove(k), Contains(k) is false and a second Remove(k) is false), and Size
\* is the reference set's cardinality.
SequentialRemoveDeletes ==
  variant = "sequential" =>
    /\ ReferenceAnswer
    /\ \A k \in StoredKeys(table_) : k \in abs

\* the value demo_sequential's main compares the result of a Size() call with
ExpectedBySizeCheck == th[1].elem

\* C8: the sequential demo: for every initial capacity and every count, after
\* Add of the keys 0..count-1 Size() is count; then, removing the keys in
\* order, before the removal of key i Size() is count - i and Contains(i) is
\* true, and after the last removal Size() is 0.
SequentialDemoPasses ==
  (variant = "sequential" /\ At(1, "done")) =>
    /\ th[1].op = "Size" => th[1].size = ExpectedBySizeCheck
    /\ th[1].op = "Contains" => th[1].res

\* C8 witness: the last Size() of a run with count = MaxCount has returned 0,
\* on a table that was doubled on the way
SequentialDemoPassesWitness ==
  /\ variant = "sequential"
  /\ At(1, "done") /\ th[1].op = "Size" /\ th[1].size = 0
  /\ todo[1] = <<>>
  /\ bucket_count_ > MaxDemoCapacity
  /\ elem_count_ = 0


\* C11: every operation runs to completion: with finitely many operations per
\* thread and a fair scheduler, every invoked Add, Remove, Contains (and Size)
\* on the striped and refinable sets eventually returns. In particular a
\* thread leaves the wait for the exclusive gate of a refinable Resize only by
\* holding it, leaves the loop of Quiesce only to go on with the resize, and
\* leaves the locking loop of a striped Resize only with all stripe locks
\* held; since its call returns, it does each of these eventually.
EveryCallReturns ==
  /\ \A t \in Threads : (th[t].pc # "idle") ~> (th[t].pc = "idle")
  /\ [][\A t \in Threads :
          /\ (At(t, "rs_gate") /\ th'[t].pc # "rs_gate") =>
               (th'[t].pc = "rs_check" /\ writer' = t)
          /\ (th[t].pc \in {"q_lock", "q_unlock"} /\ th'[t].pc \notin {"q_lock", "q_unlock"}) =>
               th'[t].pc = "rs_store"
          /\ (At(t, "sv_lock") /\ th'[t].pc # "sv_lock") =>
               (th'[t].pc = "rs_check" /\ \A i \in DOMAIN mutexes_ : mutexes_'[i] = t)]_vars

\* C11 witness: a refinable Resize waits for the exclusive gate while another
\* thread is inside Acquire with the gate held shared
EveryCallReturnsWitness ==
  /\ variant = "refinable"
  /\ \E t, u \in Threads : At(t, "rs_gate") /\ u \in readers /\ At(u, "acq_lock")


\* the number of keys stored in the table: the sum of the bucket lengths
StoredCount == SumLen(table_, 0, TableSize(table_))

\* C12: in the striped and refinable sets a Size() call that runs concurrently
\* with Add and Remove returns a value that the number of stored keys (the sum
\* of the bucket lengths) had at some instant between the call's invocation
\* and its return.
SizeWasStoredCount ==
  \A t \in Threads :
    (variant \in {"striped", "refinable"} /\ th[t].op = "Size" /\ At(t, "done")) =>
      th[t].size \in th[t].sums


\* no operation is in progress on any thread
Quiescent == \A t \in Threads : At(t, "idle")

\* C13: cardinality invariant: in the coarse, striped and refinable sets, at
\* every quiescent point elem_count_ equals the sum of the lengths of all
\* buckets, which equals the number of distinct keys added and not since
\* removed.
CardinalityAtQuiescence ==
  (variant \in {"coarse", "striped", "refinable"} /\ Quiescent) =>
    /\ elem_count_ = StoredCount
    /\ StoredCount = Cardinality(abs)

\* C13 witness: a quiescent point after concurrent calls, on a table that was
\* doubled and from which a prefilled key was removed
CardinalityAtQuiescenceWitness ==
  /\ variant \in {"coarse", "striped", "refinable"}
  /\ Quiescent /\ spawned
  /\ bucket_count_ > InitialCapacity
  /\ (PrefillCount - 1) \notin abs
  /\ elem_count_ = PrefillCount + 1

\* a Resize has stored the new bucket_count_ and has not yet assigned table_
Replacing(t) == th[t].pc \in {"rs_mutexes", "rs_build", "rs_assign"}

\* C14: table well-formedness: in the coarse, striped and refinable sets, in
\* every reachable state in which no Resize is in the middle of replacing the
\* table, the table has bucket_count_ buckets, every stored key k is stored in
\* bucket hash(k) mod bucket_count_, and it appears exactly once in the table.
TableWellFormed ==
  (variant \in {"coarse", "striped", "refinable"} /\ \A t \in Threads : ~Replacing(t)) =>
    /\ DOMAIN table_ = 0..(bucket_count_ - 1)
    /\ \A b \in DOMAIN table_ : \A i \in 1..Len(table_[b]) :
         Hash(table_[b][i]) % bucket_count_ = b
    /\ StoredCount = Cardinality(StoredKeys(table_))

\* C14 witness: after a resize, a thread has just pushed a new key while the
\* other thread is inside a call
TableWellFormedWitness ==
  /\ variant \in {"coarse", "striped", "refinable"}
  /\ bucket_count_ = 2 * InitialCapacity
  /\ \A t \in Threads : ~Replacing(t)
  /\ \E t, u \in Threads :
       /\ t # u
       /\ At(t, "add_count") /\ th[t].elem = PrefillCount - 1
       /\ th[u].pc \notin {"idle", "done"}

\* C15: resize transparency: the table swap of a striped or refinable Resize,
\* under any interleaving with other operations, changes neither the set of
\* stored keys nor elem_count_: every key stored immediately before the swap
\* is stored exactly once immediately after it, and no other key appears.
ResizeTransparent ==
  [][\A t \in Threads :
       (variant \in {"striped", "refinable"} /\ At(t, "rs_assign") /\ th'[t].pc # "rs_assign") =>
         /\ StoredKeys(table_') = StoredKeys(table_)
         /\ SumLen(table_', 0, TableSize(table_')) = Cardinality(StoredKeys(table_'))
         /\ SumLen(table_', 0, TableSize(table_')) = StoredCount
         /\ elem_count_' = elem_count_]_vars

\* C15 witness: a Resize has just swapped in a table twice as large that
\* stores ten keys, while the other thread is inside a call
ResizeTransparentWitness ==
  /\ variant \in {"striped", "refinable"}
  /\ \E t, u \in Threads :
       /\ t # u
       /\ th[t].pc \in {"rs_ungate", "sv_unlock"} /\ th[t].i = 0
       /\ th[t].old_capacity = InitialCapacity
       /\ th[u].pc \notin {"idle", "done"}
  /\ TableSize(table_) = 2 * InitialCapacity
  /\ StoredCount = PrefillCount + 2


\* n = base * 2^j for some j >= 0
RECURSIVE IsDoublingOf(_, _)
IsDoublingOf(n, base) ==
  \/ n = base
  \/ n > base /\ n % 2 = 0 /\ IsDoublingOf(n \div 2, base)

\* C16: in every class and every reachable state bucket_count_ is the initial
\* capacity times 2^j for some j >= 0; no step decreases it (Remove never
\* shrinks the table) and every step that changes it multiplies it by
\* exactly 2.
BucketCountDoubles ==
  /\ [](IsDoublingOf(bucket_count_, initial_bucket_count_))
  /\ [][bucket_count_' = bucket_count_ \/ bucket_count_' = 2 * bucket_count_]_vars

\* C16 witness: a second resize has been completed: bucket_count_ is four
\* times the initial capacity and table_ has that many buckets
BucketCountDoublesWitness ==
  /\ bucket_count_ = 4 * initial_bucket_count_
  /\ TableSize(table_) = bucket_count_
  /\ Quiescent

\* C17: lock-array size: at every quiescent point the refinable set's mutex
\* array has exactly bucket_count_ entries; the striped set's mutex array has
\* exactly the initial capacity given at construction in every reachable
\* state, however many resizes have happened.
LockArraySize ==
  /\ (variant = "refinable" /\ Quiescent) => DOMAIN mutexes_ = 0..(bucket_count_ - 1)
  /\ variant = "striped" => DOMAIN mutexes_ = 0..(initial_bucket_count_ - 1)

\* C17 witness: a quiescent point of the refinable set after two resizes
LockArraySizeWitness ==
  /\ variant = "refinable"
  /\ Quiescent
  /\ bucket_count_ = 4 * initial_bucket_count_
  /\ Cardinality(DOMAIN mutexes_) = 4 * initial_bucket_count_

\* C18: the assertion elem_count_ != 0 of Remove never fails: in the coarse,
\* striped and refinable sets, under every interleaving, whenever a Remove has
\* found its key in the bucket the counter is at least 1, and elem_count_
\* never wraps below zero.
RemoveAssertionHolds ==
  variant \in {"coarse", "striped", "refinable"} =>
    /\ \A t \in Threads : ~At(t, "abort")
    /\ \A t \in Threads : At(t, "rem_assert") => elem_count_ >= 1
    /\ elem_count_ >= 0

\* C18 witness: a Remove has found its key while the counter is exactly 1 and
\* another thread has pushed a key that it has not counted yet
RemoveAssertionHoldsWitness ==
  \E t, u \in Threads :
    /\ At(t, "rem_assert") /\ elem_count_ = 1
    /\ At(u, "add_count")

\* the single thread of the scenario has made all its calls and is at the
\* return of the last one, Contains(S4Count - 1)
S4AtEnd == todo[1] = <<>> /\ th[1].op = "Contains" /\ At(1, "done")

\* the single thread of the scenario is at the return of its Size() call
S4AtSize == th[1].op = "Size" /\ At(1, "done")

\* C19 as stated: after the S4Count Adds to the refinable set of capacity
\* S4Capacity, at least eight doublings of bucket_count_ have occurred.
S4EightDoublings ==
  S4AtEnd => bucket_count_ >= 256 * initial_bucket_count_

\* C19 as amended: a refinable set created with initial capacity S4Capacity to
\* which a single thread Adds the keys 0..S4Count-1 ends with Size S4Count and
\* Contains(S4Count - 1) true, and exactly seven doublings of bucket_count_
\* have occurred: bucket_count_ is 2^7 times the initial capacity at the end
\* and never more than that on the way.
S4SevenDoublings ==
  /\ bucket_count_ <= 128 * initial_bucket_count_
  /\ S4AtSize => th[1].size = S4Count
  /\ S4AtEnd => /\ th[1].res = TRUE
                /\ elem_count_ = S4Count
                /\ bucket_count_ = 128 * initial_bucket_count_
                /\ TableSize(table_) = bucket_count_

\* C19 witness: the end of the scenario, all keys stored and found
S4SevenDoublingsWitness ==
  /\ S4AtEnd
  /\ th[1].res = TRUE
  /\ SumLen(table_, 0, TableSize(table_)) = S4Count
  /\ bucket_count_ > initial_bucket_count_

\* C20 as stated: the key ranges of two different workers of the benchmark
\* are disjoint: a key that one worker is adding or removing is never in the
\* range of another worker, each worker's range having 2 * chunk_size keys.
BenchRangesDisjoint ==
  \A t, u \in Threads :
    /\ Cardinality(BenchRange(t)) = 2 * ChunkSize
    /\ (t # u /\ Mutating(t)) => th[t].elem \notin BenchRange(u)

\* C20 as amended: each worker adds and removes only keys of its own range
\* [id * chunk_size, (id + 2) * chunk_size) of 2 * chunk_size keys; the ranges
\* of workers i and i + 1 share exactly the chunk_size keys from
\* (i + 1) * chunk_size on, and only workers whose ids differ by two or more
\* have disjoint ranges.
BenchRangesOverlap ==
  \A t, u \in Threads :
    /\ BenchRange(t) = ((t - 1) * ChunkSize)..((t + 1) * ChunkSize - 1)
    /\ Cardinality(BenchRange(t)) = 2 * ChunkSize
    /\ Mutating(t) => th[t].elem \in BenchRange(t)
    /\ u = t + 1 => BenchRange(t) \cap BenchRange(u) = (t * ChunkSize)..((t + 1) * ChunkSize - 1)
    /\ u > t + 1 => BenchRange(t) \cap BenchRange(u) = {}

\* C20 witness: one worker is removing a key that the next worker is adding
BenchRangesOverlapWitness ==
  \E t, u \in Threads :
    /\ u = t + 1
    /\ Mutating(t) /\ th[t].op = "Remove"
    /\ Mutating(u) /\ th[u].op = "Add"
    /\ th[t].elem = th[u].elem

\* a thread of the refinable set is inside the critical section of Add, Remove
\* or Contains: Acquire has returned and Release has not unlocked yet
InSection(t) == InBody(t) \/ th[t].pc \in {"rel_load", "rel_unlock"}

\* a thread is inside Acquire with the shared lock constructed
InAcquire(t) == th[t].pc \in {"acq_load", "acq_lock", "acq_unshare"}

\* C21 as stated: in HashSetRefinable a thread that holds a per-bucket mutex
\* and is reading or mutating its bucket also holds the shared lease on the
\* resize gate.
SectionHoldsLease ==
  variant = "refinable" =>
    \A t \in Threads : (InSection(t) /\ Held(t) # {}) => t \in readers

\* C21 as amended: in HashSetRefinable every per-key operation holds the
\* shared lease exactly while it is inside Acquire (from the shared_lock until
\* the bucket mutex is locked and Acquire returns); during its critical
\* section it holds its bucket mutex and no longer the lease.
LeaseOnlyInAcquire ==
  variant = "refinable" =>
    \A t \in Threads :
      /\ t \in readers <=> InAcquire(t)
      /\ InSection(t) => (Held(t) = {th[t].my_lock} /\ t \notin readers)

\* C21 witness: a thread mutates its bucket under its bucket mutex without the
\* lease while another thread holds the gate exclusively and waits in Quiesce
LeaseOnlyInAcquireWitness ==
  /\ variant = "refinable"
  /\ \E t, u \in Threads :
       /\ At(t, "add_push") /\ Held(t) # {} /\ t \notin readers
       /\ writer = u /\ At(u, "q_lock")

\* C22 as stated: in HashSetRefinable, whenever some thread holds the resize
\* gate exclusively, no other thread holds a per-bucket mutex or is inside the
\* critical section of Add, Remove or Contains (the exclusive lease alone,
\* before Quiesce runs, guarantees it).
GateDominance ==
  variant = "refinable" =>
    \A t, u \in Threads :
      (writer = t /\ u # t) => (Held(u) = {} /\ ~InSection(u))

\* the resizer has returned from Quiesce and is replacing bucket_count_,
\* mutexes_ and table_
Swapping(t) == th[t].pc \in {"rs_store", "rs_mutexes", "rs_build", "rs_assign"}

\* C22 as amended: in HashSetRefinable, whenever some thread holds the resize
\* gate exclusively, no thread holds the shared lease and no other thread is
\* inside Acquire, so no other thread can lock a per-bucket mutex; other
\* threads may still hold a per-bucket mutex inside a critical section they
\* entered before, and only once Quiesce has returned does no other thread
\* hold a per-bucket mutex or run a critical section.
GateThenQuiesce ==
  variant = "refinable" =>
    \A t, u \in Threads :
      (writer = t /\ u # t) =>
        /\ readers = {}
        /\ ~InAcquire(u)
        /\ Swapping(t) => (Held(u) = {} /\ ~InSection(u))

\* C22 witness: the resizer holds the gate exclusively and waits in Quiesce for
\* the mutex of a thread that is in the middle of a Remove
GateThenQuiesceWitness ==
  /\ variant = "refinable"
  /\ \E t, u \in Threads :
       /\ writer = t /\ At(t, "q_lock")
       /\ mutexes_[th[t].i] = u
       /\ At(u, "rem_erase")

\* C23: atomic swap in HashSetRefinable: from the return of Quiesce until the
\* table is replaced the resizer holds the gate exclusively and no other
\* thread holds a per-bucket mutex or is inside Acquire or a critical
\* section; so a thread inside a critical section always finds bucket_count_,
\* the lock array and the table of one size, every stored key in bucket
\* hash mod bucket_count_, and the indices it computed equal to
\* hash(elem) mod bucket_count_.
AtomicSwap ==
  variant = "refinable" =>
    /\ \A t, u \in Threads :
         (Swapping(t) /\ u # t) =>
           /\ writer = t
           /\ Held(u) = {} /\ ~InSection(u) /\ ~InAcquire(u)
    /\ \A u \in Threads :
         InSection(u) =>
           /\ TableSize(table_) = bucket_count_
           /\ DOMAIN mutexes_ = DOMAIN table_
           /\ \A b \in DOMAIN table_ : \A i \in 1..Len(table_[b]) :
                Hash(table_[b][i]) % bucket_count_ = b
           /\ th[u].my_lock = Hash(th[u].elem) % bucket_count_
           /\ At(u, "body_bucket") \/ th[u].my_bucket = Hash(th[u].elem) % bucket_count_

\* C23 witness: bucket_count_ and the lock array are already doubled and the
\* table is not, while another thread waits for the shared lease
AtomicSwapWitness ==
  /\ variant = "refinable"
  /\ \E t, u \in Threads :
       /\ At(t, "rs_build")
       /\ bucket_count_ = 2 * TableSize(table_)
       /\ Cardinality(DOMAIN mutexes_) = bucket_count_
       /\ At(u, "acq_gate")

\* C24: in HashSetRefinable Release unlocks exactly the mutex that the same
\* operation's Acquire locked: no step changes bucket_count_ or replaces the
\* mutex array while some thread is between the lock of its bucket mutex in
\* Acquire and the unlock in Release, so the index recomputed in Release is
\* the index Acquire used, in the same array, the thread holds that mutex,
\* and no thread ever unlocks a mutex it does not hold.
ReleaseUnlocksAcquired ==
  /\ [](variant = "refinable" =>
          /\ ~ub
          /\ \A t \in Threads :
               At(t, "rel_unlock") =>
                 /\ th[t].rel = th[t].my_lock
                 /\ th[t].rel \in DOMAIN mutexes_
                 /\ mutexes_[th[t].rel] = t)
  /\ [][variant = "refinable" =>
          ((\E u \in Threads : InSection(u) \/ At(u, "acq_unshare")) =>
             /\ bucket_count_' = bucket_count_
             /\ DOMAIN mutexes_' = DOMAIN mutexes_)]_vars

\* C24 witness: on a doubled table a thread is about to unlock in Release
\* while the next resizer holds the gate and waits in Quiesce for that mutex
ReleaseUnlocksAcquiredWitness ==
  /\ variant = "refinable"
  /\ bucket_count_ = 2 * initial_bucket_count_
  /\ \E t, u \in Threads :
       /\ At(t, "rel_unlock") /\ th[t].rel = th[t].my_lock
       /\ writer = u /\ At(u, "q_lock") /\ th[u].i = th[t].rel

\* the thread has computed my_bucket and reads or mutates table_[my_bucket]
OnBucket(t) == InSection(t) /\ ~At(t, "body_bucket")

InStripe(t) == InBody(t) \/ At(t, "s_unlock")

\* every key a client or the prefill uses
AllKeys == 0..(PrefillCount + NKeys - 2)

\* C26: bucket exclusion in HashSetStriped: for every key and every reachable
\* bucket_count_, (hash mod bucket_count_) mod lock_count = hash mod
\* lock_count; a thread inside a per-key critical section holds the stripe
\* lock of its key, so two threads inside critical sections never access the
\* same bucket; Resize holds every stripe lock while it stores bucket_count_
\* and replaces the table, and bucket_count_ does not change while any thread
\* is inside a per-key critical section.
BucketExclusion ==
  /\ [](variant = "striped" =>
          /\ \A k \in AllKeys :
               (Hash(k) % bucket_count_) % Cardinality(DOMAIN mutexes_)
                 = Hash(k) % Cardinality(DOMAIN mutexes_)
          /\ \A t \in Threads :
               InStripe(t) =>
                 /\ th[t].my_lock = Hash(th[t].elem) % Cardinality(DOMAIN mutexes_)
                 /\ mutexes_[th[t].my_lock] = t
          /\ \A t, u \in Threads :
               (t # u /\ InStripe(t) /\ InStripe(u)) =>
                 Hash(th[t].elem) % bucket_count_ # Hash(th[u].elem) % bucket_count_
          /\ \A t \in Threads :
               th[t].pc \in {"rs_store", "rs_build", "rs_assign"} =>
                 /\ \A i \in DOMAIN mutexes_ : mutexes_[i] = t
                 /\ \A u \in Threads : ~InStripe(u))
  /\ [][variant = "striped" =>
          ((\E u \in Threads : InStripe(u)) =>
             (bucket_count_' = bucket_count_ /\ DOMAIN table_' = DOMAIN table_))]_vars

\* C26 witness: on a doubled table a thread works on a bucket beyond the
\* initial capacity while another thread, whose key belongs to a different
\* bucket of the same stripe, waits for the stripe lock
BucketExclusionWitness ==
  /\ variant = "striped"
  /\ bucket_count_ = 2 * initial_bucket_count_
  /\ \E t, u \in Threads :
       /\ InStripe(t) /\ ~At(t, "body_bucket")
       /\ th[t].my_bucket >= initial_bucket_count_
       /\ At(u, "s_lock")
       /\ Hash(th[u].elem) % initial_bucket_count_ = th[t].my_lock
       /\ Hash(th[u].elem) % bucket_count_ # th[t].my_bucket

\* the Add of thread t, not yet returned, has evaluated Policy() to true with
\* bucket_count_ read as n
Triggered(t, n) ==
  /\ th[t].op = "Add"
  /\ th[t].pc \in {"rs_old", "sv_lock", "rs_gate", "rs_check", "q_lock", "q_unlock",
                   "rs_store", "rs_mutexes", "rs_build", "rs_assign", "sv_unlock",
                   "rs_ungate", "done"}
  /\ n > 0
  /\ th[t].pb = n
  /\ PolicyOf(th[t].pe, n)

\* C27: striped tie-break: when the Adds of two threads have both found the
\* policy threshold exceeded for the same bucket_count N, the two triggers
\* together produce exactly one doubling: the thread that gets the locks
\* second finds bucket_count_ different from its old_capacity and returns, so
\* bucket_count_ becomes 2N and not 4N.
StripedTieBreak ==
  variant = "striped" =>
    \A t, u \in Threads : \A n \in 1..bucket_count_ :
      (t # u /\ Triggered(t, n) /\ Triggered(u, n)) =>
        /\ bucket_count_ <= 2 * n
        /\ (At(u, "rs_check") /\ bucket_count_ # n) => th[u].old_capacity # bucket_count_

\* C28: in HashSetRefinable a spurious Resize call exits at the recheck: if
\* a thread's Add evaluated Policy() true for bucket_count N and another
\* thread's doubling has completed by the time this thread holds the
\* exclusive lease, then the recheck finds bucket_count_ different from
\* old_capacity, so that Resize returns without changing anything.
SpuriousResizeExits ==
  variant = "refinable" =>
    \A t \in Threads : \A n \in 1..bucket_count_ :
      (Triggered(t, n) /\ At(t, "rs_check") /\ writer = t /\ bucket_count_ # n) =>
        th[t].old_capacity # bucket_count_

\* thread t is inside Resize past the recheck, on the way to or in the swap
Doubling(t) == th[t].pc \in {"q_lock", "q_unlock", "rs_store", "rs_mutexes", "rs_build", "rs_assign"}

\* thread t is inside Resize on its way out: the ScopedVectorLock destructor
\* or the release of the writer lock
Leaving(t) == th[t].pc \in {"sv_unlock", "rs_ungate"}

\* C29: resize recheck idempotence (striped and refinable): of the threads
\* inside Resize that read the same old_capacity N, the one that reaches the
\* recheck while bucket_count_ is still N performs the doubling, and it is the
\* only one: at most one thread is past the recheck at a time and it stores
\* 2N over N; every thread that reaches the recheck with bucket_count_ # N
\* goes straight to the release of what it acquired, and no step of a thread
\* on its way out changes bucket_count_, the table or the lock array; once
\* it has returned it holds no mutex and no lease.
RecheckIdempotent ==
  /\ [](variant \in {"striped", "refinable"} =>
          /\ \A t, u \in Threads : (t # u /\ Doubling(t)) => ~Doubling(u)
          /\ \A t \in Threads :
               Doubling(t) =>
                 bucket_count_ = IF th[t].pc \in {"q_lock", "q_unlock", "rs_store"}
                                 THEN th[t].old_capacity ELSE 2 * th[t].old_capacity
          /\ \A t \in Threads :
               th[t].pc \in {"done", "idle"} => (Held(t) = {} /\ writer # t /\ t \notin readers))
  /\ [][(variant \in {"striped", "refinable"}) =>
          (\A t \in Threads :
             /\ (At(t, "rs_check") /\ th'[t].pc # "rs_check" /\ bucket_count_ # th[t].old_capacity) =>
                  (Leaving(t)' /\ UNCHANGED <<bucket_count_, table_, mutexes_>>)
             /\ (At(t, "rs_check") /\ th'[t].pc # "rs_check" /\ bucket_count_ = th[t].old_capacity) =>
                  Doubling(t)'
             /\ (Leaving(t) /\ th'[t] # th[t]) =>
                  (UNCHANGED <<bucket_count_, table_>> /\ DOMAIN mutexes_' = DOMAIN mutexes_))
       ]_vars

\* C29 witness: two threads read the same old_capacity; one has doubled the
\* table and returned from Resize, the other found bucket_count_ changed at
\* the recheck and is on its way out
RecheckIdempotentWitness ==
  \E t, u \in Threads :
    /\ t # u
    /\ th[t].old_capacity = th[u].old_capacity
    /\ bucket_count_ = 2 * th[u].old_capacity
    /\ TableSize(table_) = bucket_count_
    /\ At(t, "done")
    /\ Leaving(u)

\* thread t is inside Resize of the refinable set within the scope of
\* writer_lock
InGate(t) ==
  th[t].pc \in {"rs_check", "q_lock", "q_unlock", "rs_store", "rs_mutexes", "rs_build",
                "rs_assign", "rs_ungate"}

\* C30 as stated: in HashSetRefinable at most one thread at a time is blocked
\* waiting for, or holding, the exclusive writer lease on the resize gate.
SingleWriterAtGate ==
  variant = "refinable" =>
    Cardinality({t \in Threads : At(t, "rs_gate") \/ InGate(t)}) <= 1

\* C30 as amended: in HashSetRefinable at most one thread at a time holds the
\* exclusive writer lease on the resize gate (and no thread holds the gate
\* shared meanwhile); other threads whose Add found Policy() true can be
\* blocked waiting for the lease at the same time.
SingleWriterInGate ==
  variant = "refinable" =>
    /\ Cardinality({t \in Threads : InGate(t)}) <= 1
    /\ \A t \in Threads : InGate(t) <=> writer = t
    /\ (\E t \in Threads : InGate(t)) => readers = {}

\* C30 witness: one thread holds the writer lease and rebuilds the table
\* while another thread is blocked waiting for the writer lease
SingleWriterInGateWitness ==
  /\ variant = "refinable"
  /\ \E t, u \in Threads :
       /\ At(t, "rs_build") /\ writer = t
       /\ At(u, "rs_gate")

\* ---- C31: lock discipline of HashSetRefinable

\* the thread is about to request the resize gate: shared in Acquire,
\* exclusively in Resize
AtGateRequest(t) == th[t].pc \in {"acq_gate", "rs_gate"}

\* the thread is between the end of Add's locked block and the lock_guard of
\* Resize: it evaluates Policy() or has called Resize()
InPolicy(t) == th[t].pc \in {"policy", "policy_b", "policy_e", "rs_old", "rs_gate"}

\* C31: in HashSetRefinable every thread holds at most one per-bucket mutex in
\* every reachable state, the resizing thread inside Quiesce included; no
\* thread requests or is granted the resize gate, shared or exclusive, while
\* it holds a per-bucket mutex; and Add has released its bucket mutex before
\* it evaluates Policy() and calls Resize().
LockDiscipline ==
  /\ [](variant = "refinable" =>
          \A t \in Threads :
            /\ Cardinality(Held(t)) <= 1
            /\ AtGateRequest(t) => Held(t) = {}
            /\ InPolicy(t) => Held(t) = {})
  /\ [][(variant = "refinable") =>
          (\A t \in Threads :
             ((t \in readers' /\ t \notin readers) \/ (writer' = t /\ writer # t)) =>
               (Held(t) = {} /\ {i \in DOMAIN mutexes_' : mutexes_'[i] = t} = {}))
       ]_vars

\* C31 witness: the resizing thread holds one mutex inside Quiesce while
\* another thread holds a bucket mutex in its critical section, and (in some
\* state) a successful Add evaluates Policy() with no mutex held
LockDisciplineWitness ==
  /\ variant = "refinable"
  /\ \E t, u \in Threads :
       /\ t # u
       /\ At(t, "q_unlock") /\ Cardinality(Held(t)) = 1
       /\ InBody(u) /\ Cardinality(Held(u)) = 1

\* ---- C32: the resize policy threshold

\* the call of thread t is an Add that has inserted its key
Inserted(t) == th[t].op = "Add" /\ th[t].res /\ th[t].linearized

\* C32: in a single-threaded run of any class, a successful Add doubles
\* bucket_count_ iff, after the insertion, the integer quotient
\* elem_count / bucket_count is greater than 4, which is iff
\* elem_count >= 5 * bucket_count (a load factor of 4.5 does not trigger); a
\* failed Add, a Remove and a Contains never change bucket_count_; and a
\* triggered resize sets bucket_count_ to exactly twice its value.
PolicyThresholdExact ==
  /\ [](\A t \in Threads :
          (At(t, "done") /\ Inserted(t)) =>
            /\ th[t].pe = elem_count_
            /\ th[t].pe > 0 /\ th[t].pb > 0
            /\ (th[t].pe \div th[t].pb > PolicyThreshold) <=>
                 (th[t].pe >= (PolicyThreshold + 1) * th[t].pb)
            /\ bucket_count_ = IF th[t].pe \div th[t].pb > PolicyThreshold
                               THEN 2 * th[t].pb ELSE th[t].pb)
  /\ [][/\ bucket_count_' # bucket_count_ =>
            /\ bucket_count_' = 2 * bucket_count_
            /\ \E t \in Threads : Inserted(t) /\ At(t, "rs_store")
        /\ \A t \in Threads :
             (th[t].pc \in {"policy_b", "policy_e"} /\ th'[t].pc # th[t].pc) =>
               /\ Inserted(t)
               /\ th'[t].pe = elem_count_ /\ th'[t].pb = bucket_count_
               /\ th'[t].pc = "rs_old" <=> (elem_count_ \div bucket_count_ > PolicyThreshold)
        /\ \A t \in Threads :
             (At(t, "rs_check") /\ th'[t].pc # "rs_check") => th'[t].pc \in {"q_lock", "rs_store"}
      ]_vars

\* C32 witness: a successful Add has returned after doubling at the boundary:
\* after the insertion elem_count was exactly 5 * bucket_count
PolicyThresholdExactWitness ==
  \E t \in Threads :
    /\ At(t, "done") /\ Inserted(t)
    /\ th[t].pb = InitialCapacity
    /\ th[t].pe = (PolicyThreshold + 1) * th[t].pb
    /\ bucket_count_ = 2 * th[t].pb

\* C32 witness of the other side: a successful Add has returned without a
\* doubling at a load factor of 4.5
NoDoublingBelowFive ==
  \E t \in Threads :
    /\ At(t, "done") /\ Inserted(t)
    /\ 2 * th[t].pe = (2 * PolicyThreshold + 1) * th[t].pb
    /\ bucket_count_ = th[t].pb

\* ---- C33: the coarse-grained resize runs under the mutex

\* the thread evaluates Policy() or runs Resize()
InPolicyOrResize(t) ==
  th[t].pc \in {"policy", "policy_b", "policy_e", "rs_old", "rs_store", "rs_build", "rs_assign"}

\* table_ has bucket_count_ buckets and every stored key is in the bucket of
\* its hash
FullyRehashed ==
  /\ DOMAIN table_ = 0..(bucket_count_ - 1)
  /\ \A b \in DOMAIN table_ :
       \A i \in 1..Len(table_[b]) : Hash(table_[b][i]) % bucket_count_ = b

NoCallInProgress == \A t \in DOMAIN th : At(t, "idle")

\* bucket_count_ at the quiescent point of the missed-resize scenario: the one
\* doubling of the crowd has been performed
MissedBuckets == 2 * MissedCapacity

\* C34: (striped and refinable) if at a quiescent point
\* elem_count / bucket_count > 4 because an earlier Resize call returned at
\* its recheck, then the next Add that inserts a new key performs a doubling
\* of bucket_count before it returns. In the scenario: at the join the set is
\* quiescent with elem_count / bucket_count > 4 at MissedBuckets buckets; from
\* then on an Add that has inserted a key and evaluates Policy() at that
\* bucket count calls Resize(), its recheck, passed at that bucket count, leads
\* to the doubling, and no Add that has inserted a key returns before
\* bucket_count has been doubled.
MissedResizeRetriggered ==
  /\ [](spawned =>
          \A t \in DOMAIN th :
            (At(t, "done") /\ Inserted(t)) => bucket_count_ >= 2 * MissedBuckets)
  /\ [][/\ (~spawned /\ spawned') =>
             /\ NoCallInProgress
             /\ bucket_count_ = MissedBuckets
             /\ elem_count_ = CrowdKeys
             /\ elem_count_ \div bucket_count_ > PolicyThreshold
             /\ \A t \in DOMAIN th : Held(t) = {} /\ t \notin readers /\ writer # t
        /\ \A t \in DOMAIN th :
             (spawned /\ th[t].pc \in {"policy_b", "policy_e"} /\ th'[t].pc # th[t].pc
                /\ th'[t].pb = MissedBuckets) =>
               (Inserted(t) /\ th'[t].pc = "rs_old")
        /\ \A t \in DOMAIN th :
             (spawned /\ At(t, "rs_check") /\ th'[t].pc # "rs_check"
                /\ bucket_count_ = MissedBuckets) =>
               (th[t].old_capacity = MissedBuckets /\ th'[t].pc \in {"q_lock", "rs_store"})
      ]_vars

\* C34 witness: after the quiescent point with the missed resize, the next
\* Add has inserted a new key on its own (no other call in progress), found
\* Policy() true at the bucket count of the quiescent point, and has performed
\* the doubling before returning
MissedResizeRetriggeredWitness ==
  /\ spawned
  /\ \E t \in Threads :
       /\ At(t, "done") /\ Inserted(t)
       /\ th[t].pb = MissedBuckets /\ th[t].pe = CrowdKeys + 1
       /\ th[t].old_capacity = MissedBuckets
       /\ bucket_count_ = 2 * MissedBuckets
       /\ elem_count_ = CrowdKeys + 1
       /\ \A u \in DOMAIN th : u # t => At(u, "idle")

\* the precondition of C34: a quiescent point with elem_count / bucket_count > 4
\* left by a crowd of Adds of which one doubled and the others returned at
\* the recheck
MissedResizeAtQuiescence ==
  /\ variant \in {"striped", "refinable"}
  /\ ~spawned
  /\ NoCallInProgress /\ \A t \in DOMAIN th : todo[t] = <<>>
  /\ elem_count_ \div bucket_count_ > PolicyThreshold

\* ---- C35: the frame of the non-mutating outcomes

\* the call of thread t is one that changes the set: an Add that inserts its
\* key or a Remove that erases it (res is set by the push_back and the erase)
MutatingOutcome(r) == r.op \in {"Add", "Remove"} /\ r.res /\ r.linearized

\* C35: (coarse, striped, refinable) a Contains call, an Add that returns
\* false and a Remove that returns false leave the table contents, elem_count,
\* bucket_count and the lock array unchanged: every step that changes one of
\* them belongs to an Add that inserts or a Remove that erases, and a lock or
\* unlock step changes no other mutex and not the size of the array; only an
\* Add that inserted evaluates the resize policy or runs a resize; and after
\* any operation returns the calling thread holds no bucket/stripe lock, no
\* coarse mutex and no lease on the resize gate.
NonMutatingFrame ==
  /\ [](\A t \in Threads :
          /\ (InPolicyOrResize(t) \/ InGate(t) \/ th[t].pc \in {"rs_gate", "sv_lock", "sv_unlock"}) =>
               (th[t].op = "Add" /\ th[t].res)
          /\ th[t].pc \in {"done", "idle"} =>
               (Held(t) = {} /\ t \notin readers /\ writer # t)
          /\ (At(t, "done") /\ ~MutatingOutcome(th[t])) =>
               (th[t].pe = 0 /\ th[t].pb = 0 /\ th[t].old_capacity = 0 /\ th[t].table = <<>>))
  /\ [][/\ (table_' # table_ \/ elem_count_' # elem_count_ \/ bucket_count_' # bucket_count_
              \/ abs' # abs \/ DOMAIN mutexes_' # DOMAIN mutexes_) =>
             \E t \in Threads : th'[t] # th[t] /\ MutatingOutcome(th'[t])
        /\ \A t \in Threads :
             (th'[t] # th[t] /\ ~MutatingOutcome(th'[t])) =>
               /\ DOMAIN mutexes_' = DOMAIN mutexes_
               /\ \A i \in DOMAIN mutexes_ :
                    mutexes_'[i] # mutexes_[i] => t \in {mutexes_[i], mutexes_'[i]}
               /\ writer' = writer
               /\ readers' \in {readers, readers \cup {t}, readers \ {t}}
      ]_vars

\* C35 witness: an Add that found its key present and a Remove that found
\* its key absent have both returned false, after a resize; neither thread
\* holds a lock or a lease and elem_count_ is the number of keys stored
NonMutatingFrameWitness ==
  /\ bucket_count_ = 2 * InitialCapacity
  /\ \E t, u \in Threads :
       /\ At(t, "done") /\ th[t].op = "Add" /\ ~th[t].res
       /\ At(u, "done") /\ th[u].op = "Remove" /\ ~th[u].res
       /\ Held(t) = {} /\ Held(u) = {}
  /\ readers = {} /\ writer = NoThread
  /\ elem_count_ = SumLen(table_, 0, TableSize(table_))

====
